---- MODULE Spec2Model ----
(***************************************************************************)
(* Model of the session/run persistence layer of sandbox-mcp               *)
(* (src/services/session.ts, src/services/run.ts) over an R2 bucket.       *)
(*                                                                         *)
(* A store call is a task that suspends at every bucket call, so each      *)
(* bucket call (get, put, delete) is one atomic step and the steps of      *)
(* concurrent calls interleave freely.  The bucket is a map from keys to   *)
(* objects; the two index objects carry an etag, renewed on every put.     *)
(***************************************************************************)
EXTENDS Naturals, Integers, Sequences, FiniteSets, TLC

(***************************************************************************)
(* Bounds of the model.                                                    *)
(***************************************************************************)
NumProcs == 2        \* concurrent tasks calling the stores
NumSessions == 2     \* session ids in use
NumRuns == 2         \* run ids in use
MaxCalls == 3        \* store calls started in one behaviour
MaxFaultCalls == 2   \* store calls started in one behaviour with bucket failures
MaxRunCalls == 2     \* run-store calls started in one sequential behaviour
NumWriters == 5      \* concurrent upserts on distinct ids (SpecConverge)
MaxTime == 2         \* timestamps 1..MaxTime
MaxListed == 3       \* entries of a listed run index
MaxLimit == 2        \* limits 0..MaxLimit given to listRuns

(***************************************************************************)
(* Program constants.                                                      *)
(***************************************************************************)
\* Schedule.recurs(3) in session.ts, MAX_INDEX_RETRIES in run.ts
MAX_INDEX_RETRIES == 3
\* options?.limit ?? 100 in listRuns
DEFAULT_LIST_LIMIT == 100

Procs == 1..NumProcs
SessionIdNames == <<"s1", "s2", "s3", "s4", "s5", "s6", "s7">>
SessionIds == {SessionIdNames[i] : i \in 1..NumSessions}

\* an optional field that is not set
Undefined == "undefined"

(***************************************************************************)
(* Keys and values.                                                        *)
(***************************************************************************)
\* The fields of SessionMetadata that the index projects; the inputs of
\* putSession are drawn from these.
SessionValues(sessionId) ==
    [sessionId : {sessionId},
     status : {"active", "idle"},
     createdAt : {1},
     lastActivity : 1..MaxTime,
     title : {Undefined, "fix"}]

\* toIndexEntry of session.ts
ToIndexEntry(session) ==
    [sessionId |-> session.sessionId,
     status |-> session.status,
     createdAt |-> session.createdAt,
     lastActivity |-> session.lastActivity,
     title |-> session.title]

RunIdNames == <<"r1", "r2", "r3", "r4", "r5", "r6", "r7">>
RunIds == {RunIdNames[i] : i \in 1..NumRuns}

\* an optional timestamp that is not set
NoTime == 0
\* an optional number that is not given
NoNumber == -1

\* an optional result that is not set; a set one is
\* <<[success |-> ..., output |-> ..., error |-> ...]>>
NoRunResult == <<>>

\* The fields of RunRecord that the store reads or projects; the inputs of
\* putRun are drawn from these.
RunValues(runId) ==
    [runId : {runId},
     sessionId : SessionIds,
     status : {"started", "running"},
     title : {"Processing..."},
     startedAt : 1..MaxTime,
     completedAt : {NoTime},
     result : {NoRunResult}]

\* CompleteRunResult: success, the optional title, output and error
CompleteResults == [success : BOOLEAN, title : {Undefined, "Add README"},
                    output : {Undefined}, error : {Undefined}]

\* toIndexEntry of run.ts
RunToIndexEntry(run) ==
    [runId |-> run.runId,
     sessionId |-> run.sessionId,
     status |-> run.status,
     title |-> run.title,
     startedAt |-> run.startedAt,
     completedAt |-> run.completedAt]

\* a map with one key set / removed: {...m, [k]: v} and {[k]: _, ...rest}
MapSet(m, k, v) == [x \in (DOMAIN m) \cup {k} |-> IF x = k THEN v ELSE m[x]]
MapRemove(m, k) == [x \in (DOMAIN m) \ {k} |-> m[x]]
EmptyMap == [x \in {} |-> 0]

\* index.runs is an object whose keys keep their insertion order
\* (Object.values, Object.entries): a sequence of entries, one per runId.
\* {...runs, [runId]: entry} replaces in place or appends.
RunsUpsert(runs, entry) ==
    IF \E i \in DOMAIN runs : runs[i].runId = entry.runId
    THEN [i \in DOMAIN runs |-> IF runs[i].runId = entry.runId THEN entry ELSE runs[i]]
    ELSE Append(runs, entry)

\* a removal that keeps every entry
RunsKeepAll(runs, runId) == runs

\* const {[runId]: _, ...remainingRuns} = index.runs
RunsRemove(runs, runId) ==
    LET Keep(e) == e.runId # runId IN SelectSeq(runs, Keep)

\* a removal that drops the entries of every session
RunsWithoutAny(runs, sessionId) == <<>>

\* the entries filtered by entry.sessionId !== sessionId
RunsWithoutSession(runs, sessionId) ==
    LET Keep(e) == e.sessionId # sessionId IN SelectSeq(runs, Keep)

\* the runIds of the entries with r.sessionId === sessionId, in index order
RunIdsOfSession(runs, sessionId) ==
    LET Match(e) == e.sessionId = sessionId
        m == SelectSeq(runs, Match)
    IN [i \in DOMAIN m |-> m[i].runId]

RunIdsIn(runs) == {runs[i].runId : i \in DOMAIN runs}
RunEntry(runs, runId) == runs[CHOOSE i \in DOMAIN runs : runs[i].runId = runId]

VARIABLES
    sessRec,      \* bucket: sessionId -> stored session, for the records present
    sessIdx,      \* bucket: the session index object, [exists, etag, sessions]
    runRec,       \* bucket: runId -> stored run, for the records present
    runIdx,       \* bucket: the run index object, [exists, etag, runs]
    etagCounter,  \* the bucket's etag source
    proc,         \* per task: the store call in flight and the last result
    calls,        \* store calls started so far
    called,       \* the ids on which a store call was started
    wf,           \* the workflow of one run, its sandbox and the polling client
    px            \* the proxy handling one request

hist == <<calls, called>>
sessVars == <<sessRec, sessIdx>>
runVars == <<runRec, runIdx>>
storeVars == <<sessRec, sessIdx, runRec, runIdx, etagCounter, proc, calls, called>>
vars == <<sessRec, sessIdx, runRec, runIdx, etagCounter, proc, calls, called, wf, px>>

\* no workflow is running and no request is being proxied
NoWorkflow == [step |-> "none"]
NoProxy == [pc |-> "none"]
otherVars == <<wf, px>>

\* no object under the index key
AbsentIndex == [exists |-> FALSE, etag |-> 0, sessions |-> EmptyMap]
AbsentRunIndex == [exists |-> FALSE, etag |-> 0, runs |-> <<>>]

\* results of a store call
NoResult == [tag |-> "none", id |-> "", cause |-> ""]
Ok == [tag |-> "ok", id |-> "", cause |-> ""]
ConflictCause == "Concurrent modification detected"
\* the errors of src/models/errors.ts
SessionStorageReadError(sessionId, cause) ==
    [tag |-> "SessionStorageReadError", id |-> sessionId, cause |-> cause]
SessionStorageWriteError(sessionId, cause) ==
    [tag |-> "SessionStorageWriteError", id |-> sessionId, cause |-> cause]
\* runId is optional in the run errors: Undefined when the error gives none
RunStorageReadError(runId, cause) ==
    [tag |-> "RunStorageReadError", id |-> runId, cause |-> cause]
RunStorageWriteError(runId, cause) ==
    [tag |-> "RunStorageWriteError", id |-> runId, cause |-> cause]

\* a task with no call in flight.  op, id and result are those of its last
\* call; index and etag are what readIndex returned to the attempt in flight;
\* todo is runIdsToDelete; pre is the bucket as the last cascade found it.
\* opts and out are the options and the result of the last listRuns.
NoPre == [runs |-> <<>>, rec |-> EmptyMap]
NoOptions == [sessionId |-> Undefined, status |-> Undefined,
              before |-> NoNumber, limit |-> NoNumber]
NoOutput == [runs |-> <<>>, total |-> 0]
Idle == [pc |-> "idle", op |-> "none", id |-> "", val |-> Undefined,
         attempt |-> 0, index |-> EmptyMap, rindex |-> <<>>, etag |-> 0,
         todo |-> <<>>, pre |-> NoPre, opts |-> NoOptions, out |-> NoOutput,
         result |-> NoResult]

\* the bucket is empty and no call is in flight
Init ==
    /\ sessRec = EmptyMap
    /\ sessIdx = AbsentIndex
    /\ runRec = EmptyMap
    /\ runIdx = AbsentRunIndex
    /\ etagCounter = 0
    /\ proc = [p \in Procs |-> Idle]
    /\ calls = 0
    /\ called = {}
    /\ wf = NoWorkflow
    /\ px = NoProxy

(***************************************************************************)
(* The bucket.                                                             *)
(***************************************************************************)
\* a put that ignores onlyIf
PutUnconditional(object, expected) == TRUE

\* bucket.put's precondition: put(key, body, {onlyIf: {etagMatches}}) stores
\* unless the object has another etag; without onlyIf it always stores.
\* expected = 0 stands for "no etag given" (if (expectedEtag) in writeIndex).
PutAllowed(object, expected) ==
    \/ expected = 0
    \/ ~object.exists
    \/ object.etag = expected

\* readIndex: the index and its etag, or an empty index with no etag
ReadIndexResult(object) ==
    IF object.exists
    THEN [index |-> object.sessions, etag |-> object.etag]
    ELSE [index |-> EmptyMap, etag |-> 0]

\* a retry that writes again with the etag it already has
RetryWithoutRead(c, error) ==
    IF c.attempt < MAX_INDEX_RETRIES
    THEN [c EXCEPT !.pc = "write", !.attempt = c.attempt + 1]
    ELSE [Idle EXCEPT !.op = c.op, !.id = c.id, !.pre = c.pre, !.result = error]

\* Effect.retry(attempt, Schedule.recurs(MAX_INDEX_RETRIES)): a failed attempt
\* is run again while the schedule recurs, then the call fails with the
\* attempt's error
RetryOrFail(c, error) ==
    IF c.attempt < MAX_INDEX_RETRIES
    THEN [c EXCEPT !.pc = "read", !.attempt = c.attempt + 1,
                   !.index = EmptyMap, !.rindex = <<>>, !.etag = 0]
    ELSE [Idle EXCEPT !.op = c.op, !.id = c.id, !.pre = c.pre, !.result = error]

(***************************************************************************)
(* putSession: record first, then the index under Effect.retry.            *)
(***************************************************************************)
PutSessionRecord(p, session) ==
    /\ proc[p].pc = "idle"
    /\ calls' = calls + 1
    /\ called' = called \cup {session.sessionId}
    /\ sessRec' = MapSet(sessRec, session.sessionId, session)
    /\ proc' = [proc EXCEPT ![p] = [Idle EXCEPT !.pc = "read", !.op = "putSession",
                                       !.id = session.sessionId, !.val = session]]
    /\ UNCHANGED <<sessIdx, runVars, etagCounter>>

\* bucket.put of the record throws: the call fails, nothing was written
PutSessionRecordFails(p, session) ==
    /\ proc[p].pc = "idle"
    /\ calls' = calls + 1
    /\ called' = called \cup {session.sessionId}
    /\ proc' = [proc EXCEPT ![p] = [Idle EXCEPT !.op = "putSession", !.id = session.sessionId,
                    !.result = SessionStorageWriteError(session.sessionId, "put failed")]]
    /\ UNCHANGED <<sessRec, sessIdx, runVars, etagCounter>>

(***************************************************************************)
(* deleteSession: record first, then the index under Effect.retry.         *)
(***************************************************************************)
DeleteSessionRecord(p, sessionId) ==
    /\ proc[p].pc = "idle"
    /\ calls' = calls + 1
    /\ called' = called \cup {sessionId}
    /\ sessRec' = MapRemove(sessRec, sessionId)
    /\ proc' = [proc EXCEPT ![p] = [Idle EXCEPT !.pc = "read", !.op = "deleteSession",
                                       !.id = sessionId]]
    /\ UNCHANGED <<sessIdx, runVars, etagCounter>>

\* bucket.delete throws: the call fails, nothing was deleted
DeleteSessionRecordFails(p, sessionId) ==
    /\ proc[p].pc = "idle"
    /\ calls' = calls + 1
    /\ called' = called \cup {sessionId}
    /\ proc' = [proc EXCEPT ![p] = [Idle EXCEPT !.op = "deleteSession", !.id = sessionId,
                    !.result = SessionStorageWriteError(sessionId, "delete failed")]]
    /\ UNCHANGED <<sessRec, sessIdx, runVars, etagCounter>>

(***************************************************************************)
(* One attempt of the index update: readIndex, patch, writeIndex.          *)
(***************************************************************************)
SessionOps == {"putSession", "deleteSession"}

SessionReadIndex(p) ==
    /\ proc[p].pc = "read"
    /\ proc[p].op \in SessionOps
    /\ LET r == ReadIndexResult(sessIdx)
       IN proc' = [proc EXCEPT ![p].pc = "write", ![p].index = r.index, ![p].etag = r.etag]
    /\ UNCHANGED <<sessRec, sessIdx, runVars, etagCounter, hist>>

\* bucket.get of the index throws
SessionReadIndexFails(p) ==
    /\ proc[p].pc = "read"
    /\ proc[p].op \in SessionOps
    /\ proc' = [proc EXCEPT ![p] =
                    RetryOrFail(proc[p], SessionStorageReadError("_index", "R2 get failed"))]
    /\ UNCHANGED <<sessRec, sessIdx, runVars, etagCounter, hist>>

\* the index as patched by the call
SessionPatched(c) ==
    IF c.op = "putSession"
    THEN MapSet(c.index, c.id, ToIndexEntry(c.val))
    ELSE MapRemove(c.index, c.id)

\* writeIndex stored the patched index: the call ends successfully
SessionWriteIndex(p) ==
    /\ proc[p].pc = "write"
    /\ proc[p].op \in SessionOps
    /\ PutAllowed(sessIdx, proc[p].etag)
    /\ etagCounter' = etagCounter + 1
    /\ sessIdx' = [exists |-> TRUE, etag |-> etagCounter + 1,
                   sessions |-> SessionPatched(proc[p])]
    /\ proc' = [proc EXCEPT ![p] = [Idle EXCEPT !.op = proc[p].op, !.id = proc[p].id,
                                       !.result = Ok]]
    /\ UNCHANGED <<sessRec, runVars, hist>>

\* bucket.put returned null: writeIndex fails with the error naming _index
SessionWriteConflict(p) ==
    /\ proc[p].pc = "write"
    /\ proc[p].op \in SessionOps
    /\ ~PutAllowed(sessIdx, proc[p].etag)
    /\ proc' = [proc EXCEPT ![p] =
                    RetryOrFail(proc[p], SessionStorageWriteError("_index", ConflictCause))]
    /\ UNCHANGED <<sessRec, sessIdx, runVars, etagCounter, hist>>

\* bucket.put of the index throws
SessionWriteIndexFails(p) ==
    /\ proc[p].pc = "write"
    /\ proc[p].op \in SessionOps
    /\ proc' = [proc EXCEPT ![p] =
                    RetryOrFail(proc[p], SessionStorageWriteError("_index", "put failed"))]
    /\ UNCHANGED <<sessRec, sessIdx, runVars, etagCounter, hist>>

(***************************************************************************)
(* The run store (src/services/run.ts).                                    *)
(***************************************************************************)
\* readIndex of run.ts
ReadRunIndexResult(object) ==
    IF object.exists
    THEN [index |-> object.runs, etag |-> object.etag]
    ELSE [index |-> <<>>, etag |-> 0]

\* a putRun that leaves the record for later
PutRunIndexFirst(p, run) ==
    /\ proc[p].pc = "idle"
    /\ calls' = calls + 1
    /\ called' = called \cup {run.runId}
    /\ proc' = [proc EXCEPT ![p] = [Idle EXCEPT !.pc = "read", !.op = "putRun",
                                       !.id = run.runId, !.val = run]]
    /\ UNCHANGED <<sessVars, runVars, etagCounter>>

\* putRun: the record, then the index under Effect.retry
PutRunRecord(p, run) ==
    /\ proc[p].pc = "idle"
    /\ calls' = calls + 1
    /\ called' = called \cup {run.runId}
    /\ runRec' = MapSet(runRec, run.runId, run)
    /\ proc' = [proc EXCEPT ![p] = [Idle EXCEPT !.pc = "read", !.op = "putRun",
                                       !.id = run.runId, !.val = run]]
    /\ UNCHANGED <<sessVars, runIdx, etagCounter>>

\* an update that takes the title of the result also when it gives none
CompletedRunTakesTitle(existingRun, result, now) ==
    [existingRun EXCEPT
        !.status = IF result.success THEN "completed" ELSE "failed",
        !.completedAt = now,
        !.title = result.title,
        !.result = <<[success |-> result.success,
                      output |-> IF result.output # Undefined THEN result.output ELSE "",
                      error |-> result.error]>>]

\* updatedRun of completeRun
CompletedRun(existingRun, result, now) ==
    [existingRun EXCEPT
        !.status = IF result.success THEN "completed" ELSE "failed",
        !.completedAt = now,
        !.title = IF result.title # Undefined THEN result.title ELSE existingRun.title,
        !.result = <<[success |-> result.success,
                      output |-> IF result.output # Undefined THEN result.output ELSE "",
                      error |-> result.error]>>]

\* completeRun reads the record; Date.now() is taken after the read
CompleteRunGet(p, runId, result, now) ==
    /\ proc[p].pc = "idle"
    /\ runId \in DOMAIN runRec
    /\ calls' = calls + 1
    /\ called' = called \cup {runId}
    /\ proc' = [proc EXCEPT ![p] = [Idle EXCEPT !.pc = "put", !.op = "completeRun",
                                       !.id = runId,
                                       !.val = CompletedRun(runRec[runId], result, now)]]
    /\ UNCHANGED <<sessVars, runVars, etagCounter>>

\* a completeRun that stores a record for a run it did not find
CompleteRunCreates(p, runId) ==
    /\ proc[p].pc = "idle"
    /\ runId \notin DOMAIN runRec
    /\ calls' = calls + 1
    /\ called' = called \cup {runId}
    /\ runRec' = MapSet(runRec, runId, [runId |-> runId])
    /\ proc' = [proc EXCEPT ![p] = [Idle EXCEPT !.op = "completeRun", !.id = runId,
                                       !.result = Ok]]
    /\ UNCHANGED <<sessVars, runIdx, etagCounter>>

\* completeRun of a run with no record fails with "Run not found"
CompleteRunNotFound(p, runId) ==
    /\ proc[p].pc = "idle"
    /\ runId \notin DOMAIN runRec
    /\ calls' = calls + 1
    /\ called' = called \cup {runId}
    /\ proc' = [proc EXCEPT ![p] = [Idle EXCEPT !.op = "completeRun", !.id = runId,
                    !.result = RunStorageReadError(runId, "Run not found")]]
    /\ UNCHANGED <<sessVars, runVars, etagCounter>>

\* completeRun writes the updated record
CompleteRunPut(p) ==
    /\ proc[p].pc = "put"
    /\ proc[p].op = "completeRun"
    /\ runRec' = MapSet(runRec, proc[p].id, proc[p].val)
    /\ proc' = [proc EXCEPT ![p].pc = "read"]
    /\ UNCHANGED <<sessVars, runIdx, etagCounter, hist>>

\* deleteRun: the record, then the index under Effect.retry
DeleteRunRecord(p, runId) ==
    /\ proc[p].pc = "idle"
    /\ calls' = calls + 1
    /\ called' = called \cup {runId}
    /\ runRec' = MapRemove(runRec, runId)
    /\ proc' = [proc EXCEPT ![p] = [Idle EXCEPT !.pc = "read", !.op = "deleteRun",
                                       !.id = runId]]
    /\ UNCHANGED <<sessVars, runIdx, etagCounter>>

\* deleteRunsForSession reads the index for runIdsToDelete and returns when
\* there are none
DeleteRunsForSessionFind(p, sessionId) ==
    /\ proc[p].pc = "idle"
    /\ calls' = calls + 1
    /\ called' = called \cup {sessionId}
    /\ LET runIdsToDelete == RunIdsOfSession(ReadRunIndexResult(runIdx).index, sessionId)
           c == [Idle EXCEPT !.op = "deleteRunsForSession", !.id = sessionId,
                             !.pre = [runs |-> runIdx.runs, rec |-> runRec]]
       IN proc' = [proc EXCEPT ![p] =
                      IF Len(runIdsToDelete) = 0
                      THEN [c EXCEPT !.result = Ok]
                      ELSE [c EXCEPT !.pc = "read", !.todo = runIdsToDelete]]
    /\ UNCHANGED <<sessVars, runVars, etagCounter>>

\* after the index update, one bucket.delete per run id of runIdsToDelete
DeleteRunsForSessionRecord(p) ==
    /\ proc[p].pc = "purge"
    /\ runRec' = MapRemove(runRec, Head(proc[p].todo))
    /\ proc' = [proc EXCEPT ![p] =
                   IF Len(proc[p].todo) = 1
                   THEN [Idle EXCEPT !.op = proc[p].op, !.id = proc[p].id,
                                     !.pre = proc[p].pre, !.result = Ok]
                   ELSE [proc[p] EXCEPT !.todo = Tail(proc[p].todo)]]
    /\ UNCHANGED <<sessVars, runIdx, etagCounter, hist>>

(***************************************************************************)
(* One attempt of the run index update: readIndex, patch, writeIndex.      *)
(***************************************************************************)
RunOps == {"putRun", "completeRun", "deleteRun", "deleteRunsForSession"}

RunReadIndex(p) ==
    /\ proc[p].pc = "read"
    /\ proc[p].op \in RunOps
    /\ LET r == ReadRunIndexResult(runIdx)
       IN proc' = [proc EXCEPT ![p].pc = "write", ![p].rindex = r.index, ![p].etag = r.etag]
    /\ UNCHANGED <<sessVars, runVars, etagCounter, hist>>

\* the runs of the index as patched by the call
RunPatched(c) ==
    CASE c.op \in {"putRun", "completeRun"} -> RunsUpsert(c.rindex, RunToIndexEntry(c.val))
      [] c.op = "deleteRun" -> RunsRemove(c.rindex, c.id)
      [] c.op = "deleteRunsForSession" -> RunsWithoutSession(c.rindex, c.id)

\* writeIndex stored the patched index: the call ends successfully, or goes
\* on to delete the records (deleteRunsForSession)
RunWriteIndex(p) ==
    /\ proc[p].pc = "write"
    /\ proc[p].op \in RunOps
    /\ PutAllowed(runIdx, proc[p].etag)
    /\ etagCounter' = etagCounter + 1
    /\ runIdx' = [exists |-> TRUE, etag |-> etagCounter + 1, runs |-> RunPatched(proc[p])]
    /\ proc' = [proc EXCEPT ![p] =
                   IF proc[p].op = "deleteRunsForSession"
                   THEN [proc[p] EXCEPT !.pc = "purge", !.rindex = <<>>, !.etag = 0]
                   ELSE [Idle EXCEPT !.op = proc[p].op, !.id = proc[p].id, !.result = Ok]]
    /\ UNCHANGED <<sessVars, runRec, hist>>

\* bucket.put returned null: writeIndex fails with a RunStorageWriteError
\* that carries the cause and no runId
RunIndexWriteError(cause) == RunStorageWriteError(Undefined, cause)

RunWriteConflict(p) ==
    /\ proc[p].pc = "write"
    /\ proc[p].op \in RunOps
    /\ ~PutAllowed(runIdx, proc[p].etag)
    /\ proc' = [proc EXCEPT ![p] = RetryOrFail(proc[p], RunIndexWriteError(ConflictCause))]
    /\ UNCHANGED <<sessVars, runVars, etagCounter, hist>>

\* bucket.get of the run index throws: a RunStorageReadError with no runId
RunReadIndexFails(p) ==
    /\ proc[p].pc = "read"
    /\ proc[p].op \in RunOps
    /\ proc' = [proc EXCEPT ![p] =
                    RetryOrFail(proc[p], RunStorageReadError(Undefined, "R2 get failed"))]
    /\ UNCHANGED <<sessVars, runVars, etagCounter, hist>>

\* bucket.put of the run index throws
RunWriteIndexFails(p) ==
    /\ proc[p].pc = "write"
    /\ proc[p].op \in RunOps
    /\ proc' = [proc EXCEPT ![p] = RetryOrFail(proc[p], RunIndexWriteError("put failed"))]
    /\ UNCHANGED <<sessVars, runVars, etagCounter, hist>>

(***************************************************************************)
(* listRuns.                                                               *)
(***************************************************************************)
\* if (options?.sessionId), if (options?.status): a string counts as given
\* unless it is undefined or empty
StringGiven(x) == x # Undefined /\ x # ""

\* if (options?.before): a number counts as given unless it is undefined or 0
NumberGiven(x) == x # NoNumber /\ x # 0

\* allRuns.sort((a, b) => b.startedAt - a.startedAt): a stable sort, the
\* entries of equal startedAt keep their order
InsertByStartedAtDesc(sorted, e) ==
    LET ahead == {i \in DOMAIN sorted : sorted[i].startedAt >= e.startedAt}
        k == Cardinality(ahead)
    IN SubSeq(sorted, 1, k) \o <<e>> \o SubSeq(sorted, k + 1, Len(sorted))

RECURSIVE SortByStartedAtDesc(_)
SortByStartedAtDesc(runs) ==
    IF runs = <<>> THEN <<>>
    ELSE InsertByStartedAtDesc(SortByStartedAtDesc(SubSeq(runs, 1, Len(runs) - 1)),
                               runs[Len(runs)])

Min(a, b) == IF a < b THEN a ELSE b

\* the filters of listRuns, one after the other
FilterBySession(runs, options) ==
    LET Keep(r) == r.sessionId = options.sessionId
    IN IF StringGiven(options.sessionId) THEN SelectSeq(runs, Keep) ELSE runs

FilterByStatus(runs, options) ==
    LET Keep(r) == r.status = options.status
    IN IF StringGiven(options.status) THEN SelectSeq(runs, Keep) ELSE runs

FilterByBefore(runs, options) ==
    LET Keep(r) == r.startedAt < options.before
    IN IF NumberGiven(options.before) THEN SelectSeq(runs, Keep) ELSE runs

\* listRuns on the runs of the index read: {runs, total}
ListRuns(runs, options) ==
    LET allRuns == SortByStartedAtDesc(
                       FilterByBefore(FilterByStatus(FilterBySession(runs, options),
                                                     options), options))
        limit == IF options.limit # NoNumber THEN options.limit ELSE DEFAULT_LIST_LIMIT
    IN [runs |-> SubSeq(allRuns, 1, Min(limit, Len(allRuns))), total |-> Len(allRuns)]

\* the options listRuns is called with
ListOptions ==
    [sessionId : SessionIds \cup {Undefined},
     status : {"started", "completed", Undefined},
     before : {NoNumber} \cup (0..(MaxTime + 1)),
     limit : {NoNumber} \cup (0..MaxLimit)]

\* listRuns: one read of the index
ListRunsCall(p, options) ==
    /\ proc[p].pc = "idle"
    /\ calls' = calls + 1
    /\ proc' = [proc EXCEPT ![p] =
                   [Idle EXCEPT !.op = "listRuns", !.opts = options,
                                !.out = ListRuns(ReadRunIndexResult(runIdx).index, options),
                                !.result = Ok]]
    /\ UNCHANGED <<sessVars, runVars, etagCounter, called>>

(***************************************************************************)
(* Spec: concurrent putSession / deleteSession calls on an empty bucket,   *)
(* the bucket calls all succeeding.                                        *)
(***************************************************************************)
Next ==
    \/ \E p \in Procs, id \in SessionIds : \E s \in SessionValues(id) :
          calls < MaxCalls /\ PutSessionRecord(p, s) /\ UNCHANGED otherVars
    \/ \E p \in Procs, id \in SessionIds :
          calls < MaxCalls /\ DeleteSessionRecord(p, id) /\ UNCHANGED otherVars
    \/ \E p \in Procs : SessionReadIndex(p) /\ UNCHANGED otherVars
    \/ \E p \in Procs : SessionWriteIndex(p) /\ UNCHANGED otherVars
    \/ \E p \in Procs : SessionWriteConflict(p) /\ UNCHANGED otherVars

Spec == Init /\ [][Next]_vars

\* no store call is in flight
Quiescent == \A p \in DOMAIN proc : proc[p].pc = "idle"

\* the same bucket calls on a bucket that already holds a session and the
\* index naming it
InitialSession == [sessionId |-> "s1", status |-> "active", createdAt |-> 1,
                   lastActivity |-> 1, title |-> Undefined]

InitPopulated ==
    /\ sessRec = MapSet(EmptyMap, "s1", InitialSession)
    /\ sessIdx = [exists |-> TRUE, etag |-> 1,
                  sessions |-> MapSet(EmptyMap, "s1", ToIndexEntry(InitialSession))]
    /\ runRec = EmptyMap
    /\ runIdx = AbsentRunIndex
    /\ etagCounter = 1
    /\ proc = [p \in Procs |-> Idle]
    /\ calls = 0
    /\ called = {}
    /\ wf = NoWorkflow
    /\ px = NoProxy

SpecPopulated == InitPopulated /\ [][Next]_vars

(***************************************************************************)
(* SpecConverge: N tasks, N from 1 to NumWriters, each making one upsert   *)
(* on an id of its own, all on the session store or all on the run store,  *)
(* on a bucket whose indices exist and hold one entry.                     *)
(***************************************************************************)
InitialRun == [runId |-> "r-init", sessionId |-> "s1", status |-> "started",
               title |-> "Processing...", startedAt |-> 1, completedAt |-> NoTime,
               result |-> NoRunResult]
InitialSessionOfIndex == [InitialSession EXCEPT !.sessionId = "s-init"]

\* the upsert task p makes
WriterSession(p) == [sessionId |-> SessionIdNames[p], status |-> "active", createdAt |-> 1,
                     lastActivity |-> 1, title |-> Undefined]
WriterRun(p) == [InitialRun EXCEPT !.runId = RunIdNames[p]]

InitConverge ==
    /\ sessRec = MapSet(EmptyMap, "s-init", InitialSessionOfIndex)
    /\ sessIdx = [exists |-> TRUE, etag |-> 1,
                  sessions |-> MapSet(EmptyMap, "s-init", ToIndexEntry(InitialSessionOfIndex))]
    /\ runRec = MapSet(EmptyMap, "r-init", InitialRun)
    /\ runIdx = [exists |-> TRUE, etag |-> 2, runs |-> <<RunToIndexEntry(InitialRun)>>]
    /\ etagCounter = 2
    /\ \E n \in 1..NumWriters : proc = [p \in 1..n |-> Idle]
    /\ calls = 0
    /\ called = {}
    /\ wf = NoWorkflow
    /\ px = NoProxy

\* a task makes its one call, on the store the others called, if any
NeverCalled(p) == proc[p].op = "none"
OthersCalled(ops) == \A q \in DOMAIN proc : proc[q].op \in ops \cup {"none"}

NextConverge ==
    \/ \E p \in DOMAIN proc :
          NeverCalled(p) /\ OthersCalled({"putSession"}) /\ PutSessionRecord(p, WriterSession(p)) /\ UNCHANGED otherVars
    \/ \E p \in DOMAIN proc :
          NeverCalled(p) /\ OthersCalled({"putRun"}) /\ PutRunRecord(p, WriterRun(p)) /\ UNCHANGED otherVars
    \/ \E p \in DOMAIN proc : SessionReadIndex(p) /\ UNCHANGED otherVars
    \/ \E p \in DOMAIN proc : SessionWriteIndex(p) /\ UNCHANGED otherVars
    \/ \E p \in DOMAIN proc : SessionWriteConflict(p) /\ UNCHANGED otherVars
    \/ \E p \in DOMAIN proc : RunReadIndex(p) /\ UNCHANGED otherVars
    \/ \E p \in DOMAIN proc : RunWriteIndex(p) /\ UNCHANGED otherVars
    \/ \E p \in DOMAIN proc : RunWriteConflict(p) /\ UNCHANGED otherVars

SpecConverge == InitConverge /\ [][NextConverge]_vars

(***************************************************************************)
(* SpecRunSeq: run-store calls made one after the other by one task, the   *)
(* bucket calls all succeeding.  The bucket is empty, or holds two runs of *)
(* two sessions that earlier putRun calls stored.                          *)
(***************************************************************************)
\* an empty bucket and one task
InitEmpty ==
    /\ sessRec = EmptyMap
    /\ sessIdx = AbsentIndex
    /\ runRec = EmptyMap
    /\ runIdx = AbsentRunIndex
    /\ etagCounter = 0
    /\ proc = [p \in {1} |-> Idle]
    /\ calls = 0
    /\ called = {}
    /\ wf = NoWorkflow
    /\ px = NoProxy

\* the run that putRun stored for session i
StoredRun(i) == [InitialRun EXCEPT !.runId = RunIdNames[i], !.sessionId = SessionIdNames[i],
                                   !.startedAt = i]

\* the bucket after putRun(StoredRun(1)) and putRun(StoredRun(2))
InitTwoRuns ==
    /\ sessRec = EmptyMap
    /\ sessIdx = AbsentIndex
    /\ runRec = [id \in {RunIdNames[1], RunIdNames[2]} |->
                    IF id = RunIdNames[1] THEN StoredRun(1) ELSE StoredRun(2)]
    /\ runIdx = [exists |-> TRUE, etag |-> 2,
                 runs |-> <<RunToIndexEntry(StoredRun(1)), RunToIndexEntry(StoredRun(2))>>]
    /\ etagCounter = 2
    /\ proc = [p \in {1} |-> Idle]
    /\ calls = 0
    /\ called = {}
    /\ wf = NoWorkflow
    /\ px = NoProxy

InitRunSeq == InitEmpty \/ InitTwoRuns

NextRunSeq ==
    \/ \E id \in RunIds : \E r \in RunValues(id) :
          calls < MaxRunCalls /\ PutRunRecord(1, r) /\ UNCHANGED otherVars
    \/ \E id \in RunIds, res \in CompleteResults, now \in 1..MaxTime :
          calls < MaxRunCalls /\ CompleteRunGet(1, id, res, now) /\ UNCHANGED otherVars
    \/ \E id \in RunIds : calls < MaxRunCalls /\ CompleteRunNotFound(1, id) /\ UNCHANGED otherVars
    \/ CompleteRunPut(1) /\ UNCHANGED otherVars
    \/ \E id \in RunIds : calls < MaxRunCalls /\ DeleteRunRecord(1, id) /\ UNCHANGED otherVars
    \/ \E sid \in SessionIds : calls < MaxRunCalls /\ DeleteRunsForSessionFind(1, sid) /\ UNCHANGED otherVars
    \/ DeleteRunsForSessionRecord(1) /\ UNCHANGED otherVars
    \/ RunReadIndex(1) /\ UNCHANGED otherVars
    \/ RunWriteIndex(1) /\ UNCHANGED otherVars

SpecRunSeq == InitRunSeq /\ [][NextRunSeq]_vars

(***************************************************************************)
(* SpecFaults: store calls made one after the other by one task, on an     *)
(* empty bucket whose calls may throw.                                     *)
(***************************************************************************)
NextFaults ==
    \/ \E id \in SessionIds : \E v \in SessionValues(id) :
          calls < MaxFaultCalls /\ PutSessionRecord(1, v) /\ UNCHANGED otherVars
    \/ \E id \in SessionIds : \E v \in SessionValues(id) :
          calls < MaxFaultCalls /\ PutSessionRecordFails(1, v) /\ UNCHANGED otherVars
    \/ \E id \in SessionIds : calls < MaxFaultCalls /\ DeleteSessionRecord(1, id) /\ UNCHANGED otherVars
    \/ \E id \in SessionIds : calls < MaxFaultCalls /\ DeleteSessionRecordFails(1, id) /\ UNCHANGED otherVars
    \/ SessionReadIndex(1) /\ UNCHANGED otherVars
    \/ SessionReadIndexFails(1) /\ UNCHANGED otherVars
    \/ SessionWriteIndex(1) /\ UNCHANGED otherVars
    \/ SessionWriteIndexFails(1) /\ UNCHANGED otherVars
    \/ \E id \in RunIds : \E r \in RunValues(id) : calls < MaxFaultCalls /\ PutRunRecord(1, r) /\ UNCHANGED otherVars
    \/ \E id \in RunIds : calls < MaxFaultCalls /\ DeleteRunRecord(1, id) /\ UNCHANGED otherVars
    \/ RunReadIndex(1) /\ UNCHANGED otherVars
    \/ RunReadIndexFails(1) /\ UNCHANGED otherVars
    \/ RunWriteIndex(1) /\ UNCHANGED otherVars
    \/ RunWriteIndexFails(1) /\ UNCHANGED otherVars

SpecFaults == InitEmpty /\ [][NextFaults]_vars

(***************************************************************************)
(* SpecList: listRuns on a bucket whose run index holds up to MaxListed    *)
(* runs, each with its record.                                             *)
(***************************************************************************)
ListedAttributes ==
    [sessionId : SessionIds, status : {"started", "completed"}, startedAt : 1..MaxTime]

ListedRun(i, a) ==
    [runId |-> RunIdNames[i], sessionId |-> a.sessionId, status |-> a.status,
     title |-> "Processing...", startedAt |-> a.startedAt,
     completedAt |-> IF a.status = "completed" THEN a.startedAt ELSE NoTime,
     result |-> IF a.status = "completed"
                THEN <<[success |-> TRUE, output |-> "", error |-> Undefined]>>
                ELSE NoRunResult]

\* the index lists up to MaxListed runs, each with its record
InitList ==
    /\ sessRec = EmptyMap
    /\ sessIdx = AbsentIndex
    /\ \E n \in 0..MaxListed : \E f \in [1..n -> ListedAttributes] :
          /\ runRec = [id \in {RunIdNames[i] : i \in 1..n} |->
                          ListedRun(CHOOSE i \in 1..n : RunIdNames[i] = id,
                                    f[CHOOSE i \in 1..n : RunIdNames[i] = id])]
          /\ runIdx = [exists |-> TRUE, etag |-> 1,
                       runs |-> [i \in 1..n |-> RunToIndexEntry(ListedRun(i, f[i]))]]
    /\ etagCounter = 1
    /\ proc = [p \in {1} |-> Idle]
    /\ calls = 0
    /\ called = {}
    /\ wf = NoWorkflow
    /\ px = NoProxy

NextList ==
    \E options \in ListOptions : calls < 1 /\ ListRunsCall(1, options) /\ UNCHANGED otherVars

SpecList == InitList /\ [][NextList]_vars

(***************************************************************************)
(* Properties of the session store.                                        *)
(***************************************************************************)
\* the index entry of a session equals the projection of its record
EntryAgrees(sessionId) ==
    /\ sessIdx.sessions[sessionId].sessionId = sessRec[sessionId].sessionId
    /\ sessIdx.sessions[sessionId].status = sessRec[sessionId].status
    /\ sessIdx.sessions[sessionId].createdAt = sessRec[sessionId].createdAt
    /\ sessIdx.sessions[sessionId].lastActivity = sessRec[sessionId].lastActivity
    /\ sessIdx.sessions[sessionId].title = sessRec[sessionId].title

\* every call so far was on an id of its own
DistinctIds == Cardinality(called) = calls

\* C1: putSession / deleteSession calls on distinct ids, possibly interleaved:
\* once all have finished, the index has an entry for an id exactly when the
\* record exists, and the entry equals the projection of the record.
C1_IndexConsistency ==
    (Quiescent /\ DistinctIds) =>
        \A id \in SessionIds :
            /\ (id \in DOMAIN sessIdx.sessions) <=> (id \in DOMAIN sessRec)
            /\ (id \in DOMAIN sessRec /\ id \in DOMAIN sessIdx.sessions) => EntryAgrees(id)

\* C3: two upserts that both succeeded, on distinct ids, are both in the final
\* index, whatever the index was when they started (absent included).
C3_BothEntriesKept ==
    \A p, q \in DOMAIN proc :
        (/\ Quiescent
         /\ calls = 2
         /\ p # q
         /\ proc[p].op = "putSession" /\ proc[p].result = Ok
         /\ proc[q].op = "putSession" /\ proc[q].result = Ok
         /\ proc[p].id # proc[q].id)
        => {proc[p].id, proc[q].id} \subseteq DOMAIN sessIdx.sessions

\* C4: at quiescence the index entry of a stored session has the status,
\* createdAt and lastActivity of the stored record, also when two writers
\* wrote the same session concurrently.
C4_EntryMatchesRecord ==
    Quiescent =>
        \A id \in DOMAIN sessRec :
            id \in DOMAIN sessIdx.sessions =>
                /\ sessIdx.sessions[id].status = sessRec[id].status
                /\ sessIdx.sessions[id].createdAt = sessRec[id].createdAt
                /\ sessIdx.sessions[id].lastActivity = sessRec[id].lastActivity

(***************************************************************************)
(* Properties of the run store.                                            *)
(***************************************************************************)
\* the index entry of a run equals the projection of its record
RunEntryAgrees(runId) ==
    LET e == RunEntry(runIdx.runs, runId)
        r == runRec[runId]
    IN /\ e.runId = r.runId
       /\ e.sessionId = r.sessionId
       /\ e.status = r.status
       /\ e.title = r.title
       /\ e.startedAt = r.startedAt
       /\ e.completedAt = r.completedAt

\* C5: after putRun, completeRun and deleteRun calls made one after the other
\* have finished, every stored run has an index entry with its sessionId,
\* status, title, startedAt and completedAt, and no deleted run has an entry.
C5_RunIndexConsistency ==
    Quiescent =>
        /\ \A id \in DOMAIN runRec : id \in RunIdsIn(runIdx.runs) /\ RunEntryAgrees(id)
        /\ \A id \in RunIdsIn(runIdx.runs) : id \in DOMAIN runRec
        /\ \A i, j \in DOMAIN runIdx.runs : runIdx.runs[i].runId = runIdx.runs[j].runId => i = j

\* a run was completed as failed with a new title, and is indexed so
C5_Witness ==
    /\ Quiescent
    /\ proc[1].op = "completeRun" /\ proc[1].result = Ok
    /\ proc[1].id \in DOMAIN runRec
    /\ runRec[proc[1].id].status = "failed"
    /\ runRec[proc[1].id].title = "Add README"
    /\ RunEntry(runIdx.runs, proc[1].id).completedAt # NoTime

\* the options of listRuns({sessionId})
OfSession(sessionId) == [NoOptions EXCEPT !.sessionId = sessionId]

\* C8: when deleteRunsForSession(X) has returned, listRuns({sessionId: X})
\* is empty and the records of X's indexed runs are gone, and for every other
\* session Y the listing and the records are as before; with no runs of X
\* nothing changes.
C8_CascadeDelete ==
    \A p \in DOMAIN proc :
        (proc[p].pc = "idle" /\ proc[p].op = "deleteRunsForSession" /\ proc[p].result = Ok) =>
            LET X == proc[p].id
                pre == proc[p].pre
                found == RunIdsOfSession(pre.runs, X)
            IN /\ ListRuns(runIdx.runs, OfSession(X)).total = 0
               /\ \A i \in DOMAIN found : found[i] \notin DOMAIN runRec
               /\ \A Y \in SessionIds \ {X} :
                     ListRuns(runIdx.runs, OfSession(Y)) = ListRuns(pre.runs, OfSession(Y))
               /\ \A id \in DOMAIN pre.rec :
                     pre.rec[id].sessionId # X => (id \in DOMAIN runRec /\ runRec[id] = pre.rec[id])
               /\ Len(found) = 0 => (runIdx.runs = pre.runs /\ runRec = pre.rec)

\* a cascade that found runs of X and runs of another session has returned
C8_Witness ==
    /\ proc[1].pc = "idle" /\ proc[1].op = "deleteRunsForSession" /\ proc[1].result = Ok
    /\ Len(RunIdsOfSession(proc[1].pre.runs, proc[1].id)) > 0
    /\ \E Y \in SessionIds \ {proc[1].id} :
          /\ Len(RunIdsOfSession(proc[1].pre.runs, Y)) > 0
          /\ ListRuns(runIdx.runs, OfSession(Y)).total > 0

\* C10: once the record of a run has status completed or failed, no step
\* changes that status.
C10_TerminalStatus ==
    [][\A id \in RunIds :
          (/\ id \in DOMAIN runRec
           /\ runRec[id].status \in {"completed", "failed"}
           /\ id \in DOMAIN runRec') => runRec'[id].status = runRec[id].status]_vars

\* whether an index entry satisfies every filter that was supplied
Matches(entry, options) ==
    /\ options.sessionId # Undefined => entry.sessionId = options.sessionId
    /\ options.status # Undefined => entry.status = options.status
    /\ options.before # NoNumber => entry.startedAt < options.before

\* out is the listing of runs under options: the matching entries, newest
\* first, cut to the limit
ListedAsClaimed(runs, options, out) ==
    LET matching == {i \in DOMAIN runs : Matches(runs[i], options)}
        limit == IF options.limit # NoNumber THEN options.limit ELSE DEFAULT_LIST_LIMIT
        shown == {out.runs[i] : i \in DOMAIN out.runs}
    IN /\ out.total = Cardinality(matching)
       /\ Len(out.runs) = Min(limit, Cardinality(matching))
       /\ shown \subseteq {runs[i] : i \in matching}
       /\ Cardinality(shown) = Len(out.runs)
       /\ \A i, j \in DOMAIN out.runs : i < j => out.runs[i].startedAt >= out.runs[j].startedAt
       /\ \A i \in matching : runs[i] \notin shown =>
             \A j \in DOMAIN out.runs : out.runs[j].startedAt >= runs[i].startedAt

\* C7: listRuns returns the index entries that satisfy every filter that was
\* supplied (sessionId equal, status equal, startedAt < before, before = 0
\* included), sorted by startedAt descending and cut to the first limit
\* entries; total counts the matching entries.
C7_ListRunsFilters ==
    \A p \in DOMAIN proc :
        (proc[p].op = "listRuns" /\ proc[p].result = Ok) =>
            ListedAsClaimed(runIdx.runs, proc[p].opts, proc[p].out)

\* the same with before = 0 left out: what the code does
C7_ListRunsFiltersNonZeroBefore ==
    \A p \in DOMAIN proc :
        (proc[p].op = "listRuns" /\ proc[p].result = Ok /\ proc[p].opts.before # 0) =>
            ListedAsClaimed(runIdx.runs, proc[p].opts, proc[p].out)

(***************************************************************************)
(* Properties of the index update protocol.                                *)
(***************************************************************************)
AllCalled(op) == \A p \in DOMAIN proc : proc[p].op = op
Succeeded == {p \in DOMAIN proc : proc[p].result = Ok}

\* the session index holds the initial entry and the entries of the tasks
\* in W, and nothing else
IndexHoldsInitialAnd(W) ==
    /\ DOMAIN sessIdx.sessions = {"s-init"} \cup {SessionIdNames[p] : p \in W}
    /\ sessIdx.sessions["s-init"] = ToIndexEntry(InitialSessionOfIndex)
    /\ \A p \in W : sessIdx.sessions[SessionIdNames[p]] = ToIndexEntry(WriterSession(p))

\* C2 as claimed: N concurrent putSession calls on N distinct ids against an
\* existing index all succeed, and the index then holds the initial entries
\* and one entry per call, for every N.
C2_AllUpsertsKept ==
    (Quiescent /\ AllCalled("putSession")) =>
        /\ Succeeded = DOMAIN proc
        /\ IndexHoldsInitialAnd(DOMAIN proc)

\* C2 as amended: up to MAX_INDEX_RETRIES + 1 concurrent calls all succeed;
\* with more, a call may fail with the write error of the index after its
\* last attempt, and the index holds the initial entries and one entry per
\* call that succeeded.
C2_SuccessfulUpsertsKept ==
    (Quiescent /\ AllCalled("putSession")) =>
        /\ IndexHoldsInitialAnd(Succeeded)
        /\ Cardinality(DOMAIN proc) <= MAX_INDEX_RETRIES + 1 => Succeeded = DOMAIN proc
        /\ \A p \in DOMAIN proc \ Succeeded :
              proc[p].result = SessionStorageWriteError("_index", ConflictCause)
        /\ \A p \in DOMAIN proc : SessionIdNames[p] \in DOMAIN sessRec

\* five concurrent calls have finished, four of them kept and one rejected
C2_Witness ==
    /\ Quiescent /\ AllCalled("putSession")
    /\ Cardinality(DOMAIN proc) = MAX_INDEX_RETRIES + 2
    /\ Cardinality(Succeeded) = MAX_INDEX_RETRIES + 1
    /\ IndexHoldsInitialAnd(Succeeded)

\* the etag of the index object a call updates
IndexEtagOf(c) == IF c.op \in SessionOps THEN sessIdx.etag ELSE runIdx.etag
\* whether the index holds the entry of an upsert
UpsertIndexed(c, sessions, runs) ==
    CASE c.op = "putSession" -> c.id \in DOMAIN sessions /\ sessions[c.id] = ToIndexEntry(c.val)
      [] c.op \in {"putRun", "completeRun"} ->
            c.id \in RunIdsIn(runs) /\ RunEntry(runs, c.id) = RunToIndexEntry(c.val)
      [] OTHER -> TRUE

\* the steps of an index update, but for what the error of the last
\* rejected attempt names
RetryProtocol(p) ==
    \* a write is attempted with the etag of a read made for that attempt
    /\ (proc'[p].pc = "write" /\ proc'[p] # proc[p]) =>
           /\ proc[p].pc = "read"
           /\ proc'[p].etag = IndexEtagOf(proc[p])
           /\ proc'[p].attempt = proc[p].attempt
    \* a rejected write is followed by a new read, at most 3 times
    /\ (proc[p].pc = "write" /\ proc'[p].pc = "read") =>
           proc'[p].attempt = proc[p].attempt + 1 /\ proc'[p].attempt <= 3
    \* the call fails only after the fourth attempt, with a write error
    /\ (proc[p].pc = "write" /\ proc'[p].pc = "idle" /\ proc'[p].result # Ok) =>
           /\ proc[p].attempt = 3
           /\ proc'[p].result.tag \in {"SessionStorageWriteError", "RunStorageWriteError"}
           /\ proc'[p].result.cause = ConflictCause
    \* success is reported by the step that stored the entry
    /\ (proc[p].pc = "write" /\ proc'[p].pc = "idle" /\ proc'[p].result = Ok) =>
           UpsertIndexed(proc[p], sessIdx'.sessions, runIdx'.runs)

\* C9 as claimed: at most 4 attempts, each retry after a fresh read; when all
\* are rejected the call fails with a write error that names _index; success
\* is never reported without the entry in the index.
C9_RetryNamesIndex ==
    [][\A p \in DOMAIN proc :
          /\ RetryProtocol(p)
          /\ (proc[p].pc = "write" /\ proc'[p].pc = "idle" /\ proc'[p].result # Ok) =>
                 proc'[p].result.id = "_index"]_vars

\* C9 as amended: the same, the error naming _index in the session store and
\* no run in the run store.
C9_RetryProtocol ==
    [][\A p \in DOMAIN proc :
          /\ RetryProtocol(p)
          /\ (proc[p].pc = "write" /\ proc'[p].pc = "idle" /\ proc'[p].result # Ok) =>
                 proc'[p].result.id = (IF proc[p].op \in SessionOps THEN "_index" ELSE Undefined)]_vars

\* a putRun and a putSession each rejected four times (in two behaviours,
\* so the witness is the run store's)
C9_Witness ==
    \E p \in DOMAIN proc :
        /\ proc[p].pc = "idle"
        /\ proc[p].op = "putRun"
        /\ proc[p].result = RunStorageWriteError(Undefined, ConflictCause)
        /\ RunIdNames[p] \in DOMAIN runRec
        /\ RunIdNames[p] \notin RunIdsIn(runIdx.runs)

\* C6: in every steady state, also after calls that failed part-way, no
\* entry of the session index or of the run index names a record that does
\* not exist.
C6_NoDanglingEntry ==
    Quiescent =>
        /\ \A id \in DOMAIN sessIdx.sessions : id \in DOMAIN sessRec
        /\ \A id \in RunIdsIn(runIdx.runs) : id \in DOMAIN runRec

(***************************************************************************)
(* The execute-task workflow of one run: run_task creates the workflow     *)
(* instance, the engine runs create-run, prepare-sandbox, execute-task,    *)
(* complete-run and backup-session in order, a client polls get_result.    *)
(* The workflow is caller 1 of the bucket, the agent serving run_task is   *)
(* caller 2.  The run is "r1" of session "s1".                             *)
(***************************************************************************)
\* faults injected into the re-invoked steps of one workflow
MaxStepFaults == 4

\* the session is stored; run_task has not created the workflow yet;
\* existing is params.existingOpencodeSessionId being given
InitWorkflow ==
    /\ sessRec = MapSet(EmptyMap, "s1", InitialSession)
    /\ sessIdx = [exists |-> TRUE, etag |-> 1,
                  sessions |-> MapSet(EmptyMap, "s1", ToIndexEntry(InitialSession))]
    /\ runRec = EmptyMap
    /\ runIdx = AbsentRunIndex
    /\ etagCounter = 1
    /\ proc = [p \in Procs |-> Idle]
    /\ calls = 0
    /\ called = {}
    /\ \E existing \in BOOLEAN :
          wf = [step |-> "none", busy |-> FALSE, et |-> "none", etResult |-> "none",
                result |-> "none", threw |-> "none", bk |-> "none",
                backupStored |-> FALSE, rt |-> "none", observed |-> <<>>,
                faults |-> 0, existing |-> existing, session |-> <<>>]
    /\ px = NoProxy

\* a run_task that stores the run itself before it creates the workflow
RunTaskCreatesRun(now) ==
    /\ wf.rt = "none"
    /\ PutRunRecord(2, [InitialRun EXCEPT !.runId = "r1", !.startedAt = now])
    /\ wf' = [wf EXCEPT !.rt = "created", !.step = "create-run"]
    /\ UNCHANGED px

\* run_task: EXECUTE_TASK_WORKFLOW.create({id: runId, params}), then
\* putSession of the session with the new lastActivity, then the answer
\* {runId, sessionId, status: "started"}, or the formatted error if
\* putSession failed
RunTask(now) ==
    \/ /\ wf.rt = "none"
       /\ wf' = [wf EXCEPT !.rt = "created", !.step = "create-run"]
       /\ UNCHANGED <<storeVars, px>>
    \/ /\ wf.rt = "created"
       /\ PutSessionRecord(2, [InitialSession EXCEPT !.lastActivity = now])
       /\ wf' = [wf EXCEPT !.rt = "updating"]
       /\ UNCHANGED px
    \/ /\ wf.rt = "updating"
       /\ proc[2].pc = "idle"
       /\ wf' = [wf EXCEPT !.rt = IF proc[2].result = Ok THEN "returned" ELSE "failed"]
       /\ UNCHANGED <<storeVars, px>>

\* a step of a bucket call in flight
StoreStep(p) ==
    /\ \/ SessionReadIndex(p)
       \/ SessionWriteIndex(p)
       \/ SessionWriteConflict(p)
       \/ RunReadIndex(p)
       \/ RunWriteIndex(p)
       \/ RunWriteConflict(p)
       \/ CompleteRunPut(p)
    /\ UNCHANGED <<wf, px>>

\* a bucket call fails at the index: R2 threw
StoreFault(p) ==
    /\ wf.faults < MaxStepFaults
    /\ \/ SessionReadIndexFails(p)
       \/ SessionWriteIndexFails(p)
       \/ RunReadIndexFails(p)
       \/ RunWriteIndexFails(p)
    /\ wf' = [wf EXCEPT !.faults = wf.faults + 1]
    /\ UNCHANGED px

\* step create-run: createRun puts the run with status "started"
CreateRunStep ==
    /\ wf.step = "create-run"
    /\ ~wf.busy
    /\ PutRunRecord(1, [runId |-> "r1", sessionId |-> "s1", status |-> "started",
                        startedAt |-> 1, completedAt |-> NoTime,
                        title |-> "Add README", result |-> NoRunResult])
    /\ wf' = [wf EXCEPT !.busy = TRUE]
    /\ UNCHANGED px

\* the bucket call of a step ended: on success the engine goes on, on
\* failure the step threw and the engine invokes the step again
StepReturns ==
    /\ wf.busy
    /\ proc[1].pc = "idle"
    /\ wf' = IF proc[1].result = Ok
             THEN [wf EXCEPT !.busy = FALSE,
                             !.step = CASE wf.step = "create-run" -> "prepare-sandbox"
                                        [] wf.step = "complete-run" -> "update-session"
                                        [] wf.step = "update-session" -> "backup-session"]
             ELSE [wf EXCEPT !.busy = FALSE,
                             !.step = IF wf.step = "update-session"
                                      THEN "complete-run" ELSE wf.step]
    /\ proc' = [proc EXCEPT ![1] = Idle]
    /\ UNCHANGED <<sessRec, sessIdx, runRec, runIdx, etagCounter, calls, called, px>>

\* step prepare-sandbox: ensureSandboxReady returns, or throws and the step
\* is invoked again
PrepareSandboxStep(ok) ==
    /\ wf.step = "prepare-sandbox"
    /\ ok \/ wf.faults < MaxStepFaults
    /\ wf' = IF ok THEN [wf EXCEPT !.step = "execute-task"]
                   ELSE [wf EXCEPT !.faults = wf.faults + 1]
    /\ UNCHANGED <<storeVars, px>>

\* an exception leaves executeTask: the step fails and is not run again
ExecuteTaskThrows(w) == [w EXCEPT !.step = "errored", !.threw = "execute-task"]

\* step execute-task, executeTask:
\*   createOpencode starts the subprocess, before the try;
\*   in the try, the session is the given one, the first listed one or a
\*   new one, and a failure is caught and becomes {success: false, error};
\*   session.prompt answers, answers with an error, or throws (caught);
\*   finally { await server.close() }: the result is returned if close
\*   returns
ExecuteTaskStep(how) ==
    /\ wf.step = "execute-task"
    /\ \/ /\ wf.et = "none"
          /\ how \in {"ok", "throws"}
          /\ wf' = IF how = "ok" THEN [wf EXCEPT !.et = "session"]
                                 ELSE ExecuteTaskThrows(wf)
       \/ /\ wf.et = "session"
          /\ how \in {"existing", "listed", "created", "list-throws", "create-throws", "no-id"}
          /\ (how = "existing") = wf.existing
          /\ wf' = IF how \in {"existing", "listed", "created"}
                   THEN [wf EXCEPT !.et = "prompt"]
                   ELSE [wf EXCEPT !.et = "closing", !.etResult = "failure"]
       \/ /\ wf.et = "prompt"
          /\ how \in {"ok", "response-error", "throws"}
          /\ wf' = [wf EXCEPT !.et = "closing",
                              !.etResult = IF how = "ok" THEN "success" ELSE "failure"]
       \/ /\ wf.et = "closing"
          /\ how \in {"ok", "throws"}
          /\ wf' = IF how = "ok"
                   THEN [wf EXCEPT !.step = "complete-run", !.et = "returned",
                                   !.result = wf.etResult]
                   ELSE ExecuteTaskThrows(wf)
    /\ UNCHANGED <<storeVars, px>>

\* step complete-run: completeRun with the result of execute-task, then
\* updateSessionAfterRun: getSession, and putSession of the session with the
\* new lastActivity
CompleteRunStep(now) ==
    /\ ~wf.busy
    /\ \/ /\ wf.step = "complete-run"
          /\ CompleteRunGet(1, "r1", [success |-> wf.result = "success",
                                      title |-> Undefined, output |-> Undefined,
                                      error |-> Undefined], now)
          /\ wf' = [wf EXCEPT !.busy = TRUE]
       \/ /\ wf.step = "update-session"
          /\ Len(wf.session) = 0
          /\ "s1" \in DOMAIN sessRec
          /\ wf' = [wf EXCEPT !.session = <<sessRec["s1"]>>]
          /\ UNCHANGED storeVars
       \/ /\ wf.step = "update-session"
          /\ Len(wf.session) = 1
          /\ PutSessionRecord(1, [wf.session[1] EXCEPT !.lastActivity = now])
          /\ wf' = [wf EXCEPT !.busy = TRUE, !.session = <<>>]
    /\ UNCHANGED px

\* a backupSession that lets an error out
BackupRethrows(w) == [w EXCEPT !.step = "errored", !.threw = "backup-session"]

\* backupSession's catch: the error is dropped and the function returns
BackupCatch(w) == [w EXCEPT !.bk = "caught", !.step = "done"]

\* step backup-session, backupSession: tar of the storage directory (a
\* non-zero exit code ends the backup), test -f of the archive (a missing
\* archive ends the backup), readFileStream and collectFile, bucket.put of
\* sessions/{sessionId}/opencode-storage.tar.gz (an object that is neither a
\* record nor an index), rm of the archive; whatever throws is caught
BackupSessionStep(how) ==
    /\ wf.step = "backup-session"
    /\ \/ /\ how = "ok"
          /\ wf' = CASE wf.bk = "none" -> [wf EXCEPT !.bk = "check"]
                     [] wf.bk = "check" -> [wf EXCEPT !.bk = "read"]
                     [] wf.bk = "read" -> [wf EXCEPT !.bk = "put"]
                     [] wf.bk = "put" -> [wf EXCEPT !.bk = "cleanup", !.backupStored = TRUE]
                     [] wf.bk = "cleanup" -> [wf EXCEPT !.bk = "returned", !.step = "done"]
       \/ /\ how = "return"
          /\ wf.bk \in {"none", "check"}
          /\ wf' = [wf EXCEPT !.bk = "returned", !.step = "done"]
       \/ /\ how = "throws"
          /\ wf' = BackupCatch(wf)
    /\ UNCHANGED <<storeVars, px>>

\* get_result reads the run record: its status, or "not_found"
GetResultStatus == IF "r1" \in DOMAIN runRec THEN runRec["r1"].status ELSE "not_found"

\* the client that run_task answered polls get_result and notes each change
\* of the status
ClientPoll ==
    /\ wf.rt = "returned"
    /\ IF wf.observed = <<>> THEN TRUE
       ELSE wf.observed[Len(wf.observed)] # GetResultStatus
    /\ wf' = [wf EXCEPT !.observed = Append(wf.observed, GetResultStatus)]
    /\ UNCHANGED <<storeVars, px>>

\* the engine runs the step that is due and R2 answers the workflow's calls
EngineRuns ==
    \/ StoreStep(1)
    \/ CreateRunStep
    \/ StepReturns
    \/ \E ok \in BOOLEAN : PrepareSandboxStep(ok)
    \/ \E how \in {"ok", "throws", "existing", "listed", "created", "list-throws",
                   "create-throws", "no-id", "response-error"} : ExecuteTaskStep(how)
    \/ \E now \in 1..MaxTime : CompleteRunStep(now)
    \/ \E how \in {"ok", "return", "throws"} : BackupSessionStep(how)

NextWorkflow ==
    \/ \E now \in 1..MaxTime : RunTask(now)
    \/ StoreStep(2)
    \/ \E p \in {1, 2} : StoreFault(p)
    \/ EngineRuns
    \/ ClientPoll

SpecWorkflow == InitWorkflow /\ [][NextWorkflow]_vars

\* the workflow under an engine that keeps running the step that is due and
\* an agent that runs run_task on: a failed step is invoked again, and after
\* MaxStepFaults faults the re-invoked steps succeed
SpecWorkflowLive ==
    /\ SpecWorkflow
    /\ WF_vars(EngineRuns)
    /\ WF_vars((\E now \in 1..MaxTime : RunTask(now)) \/ StoreStep(2))

\* the statuses a client may see in order: "not_found" while the record is
\* not stored yet, then "started", then "completed" or "failed"
StatusRank(status) ==
    CASE status = "not_found" -> 0
      [] status = "started" -> 1
      [] status \in {"completed", "failed"} -> 2

ObservedInOrder ==
    \A i \in 1..Len(wf.observed) : \A j \in 1..Len(wf.observed) :
        i < j => StatusRank(wf.observed[i]) < StatusRank(wf.observed[j])

RunTerminal == GetResultStatus \in {"completed", "failed"}

\* C11: the runId that a successful run_task returned is eventually visible
\* to get_result and eventually has status completed or failed, and the
\* statuses the client observes are in the order started, then completed or
\* failed
C11_RunEventuallyCompleted ==
    /\ (wf.rt = "returned") ~> ("r1" \in DOMAIN runRec)
    /\ (wf.rt = "returned") ~> RunTerminal
    /\ []ObservedInOrder

\* run_task returned the runId and the workflow failed at execute-task: the
\* run stays "started"
C11_Stuck == wf.rt = "returned" /\ wf.step = "errored" /\ GetResultStatus = "started"

\* C12: executeTask never throws, whatever fails (starting the subprocess,
\* selecting or creating the session, the prompt, closing the subprocess):
\* it returns a result and the engine goes on to complete-run
C12_ExecuteTaskNeverThrows == wf.threw # "execute-task"

\* C13: backupSession never raises, whatever fails inside it, and a step of
\* the backup changes neither the run record (status, result) nor the run
\* index that complete-run stored
C13_BackupNeverRaises ==
    [][wf.step = "backup-session" =>
          /\ wf'.step \in {"backup-session", "done"}
          /\ wf'.threw = "none"
          /\ runRec' = runRec
          /\ runIdx' = runIdx]_vars

\* a backup failed after complete-run stored the terminal status
C13_Witness ==
    /\ wf.step = "done"
    /\ wf.bk = "caught"
    /\ ~wf.backupStored
    /\ RunTerminal
    /\ Len(runRec["r1"].result) = 1

(***************************************************************************)
(* ensureSandboxReady, called twice on one sandbox.  The sandbox is what   *)
(* the three checks read: /workspace/.env naming ANTHROPIC_BASE_URL, the   *)
(* OpenCode storage directory, the repository's .git directory.            *)
(***************************************************************************)
\* the result ensureSandboxReady starts with
NothingDone == [configuredProxy |-> FALSE, restoredBackup |-> FALSE, clonedRepo |-> FALSE]

\* any sandbox, with or without a backup in the bucket, with or without a
\* repository parameter; the first call begins
InitSandbox ==
    /\ sessRec = EmptyMap
    /\ sessIdx = AbsentIndex
    /\ runRec = EmptyMap
    /\ runIdx = AbsentRunIndex
    /\ etagCounter = 0
    /\ proc = [p \in Procs |-> Idle]
    /\ calls = 0
    /\ called = {}
    /\ \E env \in BOOLEAN, storage \in BOOLEAN, git \in BOOLEAN,
          backup \in BOOLEAN, repository \in BOOLEAN :
          wf = [env |-> env, storage |-> storage, git |-> git, backup |-> backup,
                repository |-> repository, call |-> 1, pos |-> "proxy",
                res |-> NothingDone, acts |-> {}, failed |-> FALSE,
                first |-> [res |-> NothingDone, env |-> env, storage |-> storage,
                           git |-> git, failed |-> FALSE]]
    /\ px = NoProxy

\* a check that always answers "missing"
AlwaysMissing(present) == TRUE

\* sandbox.exec("... && echo exists || echo missing"): stdout is "missing"
CheckMissing(present) == ~present

\* one of the three check-then-act pairs of ensureSandboxReady.
\*  proxy: configureSandboxProxy and setupGitConfig append to .env and set
\*    the git configuration by sandbox.exec, whose exit code is not read
\*    ("no-effect": the command failed), or sandbox.exec throws;
\*  restore: restoreSession returns false when the bucket holds no backup
\*    or anything throws (caught), and true after the untar commands ran,
\*    whose exit code is not read;
\*  clone: only with a repository; cloneRepository runs gitCheckout, which
\*    creates .git or throws.
EnsureSandboxReadyStep(outcome) ==
    /\ wf.pos \in {"proxy", "restore", "clone"}
    /\ \/ /\ wf.pos = "proxy"
          /\ IF CheckMissing(wf.env)
             THEN CASE outcome = "ok" ->
                         wf' = [wf EXCEPT !.pos = "restore", !.env = TRUE,
                                          !.res.configuredProxy = TRUE,
                                          !.acts = wf.acts \cup {"configure"}]
                    [] outcome = "no-effect" ->
                         wf' = [wf EXCEPT !.pos = "restore", !.failed = TRUE,
                                          !.res.configuredProxy = TRUE,
                                          !.acts = wf.acts \cup {"configure"}]
                    [] outcome = "throws" -> wf' = [wf EXCEPT !.pos = "threw"]
                    [] OTHER -> FALSE
             ELSE outcome = "skip" /\ wf' = [wf EXCEPT !.pos = "restore"]
       \/ /\ wf.pos = "restore"
          /\ IF CheckMissing(wf.storage)
             THEN CASE outcome = "no-backup" ->
                         ~wf.backup /\ wf' = [wf EXCEPT !.pos = "clone"]
                    [] outcome = "throws" ->
                         wf' = [wf EXCEPT !.pos = "clone", !.failed = TRUE]
                    [] outcome = "ok" ->
                         /\ wf.backup
                         /\ wf' = [wf EXCEPT !.pos = "clone", !.storage = TRUE,
                                             !.res.restoredBackup = TRUE,
                                             !.acts = wf.acts \cup {"restore"}]
                    [] outcome = "no-effect" ->
                         /\ wf.backup
                         /\ wf' = [wf EXCEPT !.pos = "clone", !.failed = TRUE,
                                             !.res.restoredBackup = TRUE,
                                             !.acts = wf.acts \cup {"restore"}]
                    [] OTHER -> FALSE
             ELSE outcome = "skip" /\ wf' = [wf EXCEPT !.pos = "clone"]
       \/ /\ wf.pos = "clone"
          /\ IF wf.repository /\ CheckMissing(wf.git)
             THEN CASE outcome = "ok" ->
                         wf' = [wf EXCEPT !.pos = "returned", !.git = TRUE,
                                          !.res.clonedRepo = TRUE,
                                          !.acts = wf.acts \cup {"clone"}]
                    [] outcome = "throws" -> wf' = [wf EXCEPT !.pos = "threw"]
                    [] OTHER -> FALSE
             ELSE outcome = "skip" /\ wf' = [wf EXCEPT !.pos = "returned"]
    /\ UNCHANGED <<storeVars, px>>

\* the first call returned: ensureSandboxReady is called again with the same
\* parameters
SecondCall ==
    /\ wf.call = 1
    /\ wf.pos = "returned"
    /\ wf' = [wf EXCEPT !.call = 2, !.pos = "proxy", !.res = NothingDone, !.acts = {},
                        !.failed = FALSE,
                        !.first = [res |-> wf.res, env |-> wf.env, storage |-> wf.storage,
                                   git |-> wf.git, failed |-> wf.failed]]
    /\ UNCHANGED <<storeVars, px>>

NextSandbox ==
    \/ \E outcome \in {"skip", "ok", "no-effect", "throws", "no-backup"} :
          EnsureSandboxReadyStep(outcome)
    \/ SecondCall

SpecSandbox == InitSandbox /\ [][NextSandbox]_vars

SecondReturned == wf.call = 2 /\ wf.pos = "returned"

C14_SecondCallRestores ==
    /\ SecondReturned
    /\ ~wf.first.res.restoredBackup
    /\ wf.res.restoredBackup

(***************************************************************************)
(* The credential proxy.  A string is a sequence of symbols: "/" and       *)
(* pieces of text that hold no slash, so that startsWith, slice, split and *)
(* the path pattern are computed symbol by symbol.                         *)
(***************************************************************************)
\* segments after the service in the pathnames of the requests
MaxSegments == 3

\* symbols of the pathnames given to parseProxyPath
MaxPathLen == 4

\* a service name that passes for every service
AnyService(service) == TRUE

\* if (!service): the service segment is not empty
ServiceGiven(service) == service # <<>>

\* parseProxyPath: {service, path}, or ProxyPathInvalidError
ParseProxyPath(pathname, mountPath) ==
    LET StartsWith(s, t) == Len(t) <= Len(s) /\ SubSeq(s, 1, Len(t)) = t
        \* mountPath.replace(/^\/|\/$/g, "") behind a "/"
        a == IF mountPath # <<>> /\ Head(mountPath) = "/" THEN Tail(mountPath) ELSE mountPath
        b == IF a # <<>> /\ a[Len(a)] = "/" THEN SubSeq(a, 1, Len(a) - 1) ELSE a
        normalizedMount == <<"/">> \o b
        afterMount == SubSeq(pathname, Len(normalizedMount) + 1, Len(pathname))
        rest == Tail(afterMount)
        slashes == {i \in 1..Len(rest) : rest[i] = "/"}
        first == IF slashes = {} THEN Len(rest) + 1
                 ELSE CHOOSE i \in slashes : \A j \in slashes : i <= j
        service == SubSeq(rest, 1, first - 1)
        path == <<"/">> \o SubSeq(rest, first + 1, Len(rest))
        invalid == [ok |-> FALSE, code |-> "PROXY_PATH_INVALID", service |-> <<>>, path |-> <<>>]
    IN IF ~StartsWith(pathname, normalizedMount) THEN invalid
       ELSE IF ~StartsWith(afterMount, <<"/">>) \/ afterMount = <<"/">> THEN invalid
       ELSE IF ~ServiceGiven(service) THEN invalid
       ELSE [ok |-> TRUE, code |-> "", service |-> service, path |-> path]

\* services[service] of the handler made with services: {anthropic, github}:
\* a configuration with its target, a member that the object inherits from
\* Object.prototype, or undefined
ServiceLookup(service) ==
    CASE service = <<"anthropic">> ->
             [kind |-> "config", name |-> "anthropic", target |-> "https://api.anthropic.com/v1"]
      [] service = <<"github">> ->
             [kind |-> "config", name |-> "github", target |-> "https://github.com"]
      [] service \in {<<"constructor">>, <<"toString">>, <<"__proto__">>} ->
             [kind |-> "inherited", name |-> "", target |-> ""]
      [] OTHER -> [kind |-> "undefined", name |-> "", target |-> ""]

\* a verification that accepts every token
VerifyAcceptsAll(token) == ""

\* verifyProxyToken: "" for a payload, or the code of the error.  jwtVerify
\* (jose) rejects an expired token with the message
\* '"exp" claim timestamp check failed', a wrong signature with
\* 'signature verification failed', a token that is no compact JWS with
\* 'Invalid Compact JWS'; a payload without sandboxId is rejected by the
\* claim check.  The catch classifies by message.includes(...).
VerifyProxyToken(token) ==
    LET message ==
            CASE token = "expired" -> <<"\"exp\"", "claim", "timestamp", "check", "failed">>
              [] token = "bad-signature" -> <<"signature", "verification", "failed">>
              [] token = "malformed" -> <<"Invalid", "Compact", "JWS">>
              [] token = "no-sandboxId" -> <<"Missing", "sandboxId", "in", "token">>
              [] OTHER -> <<>>
        Includes(word) == \E i \in 1..Len(message) : message[i] = word
    IN IF message = <<>> THEN ""
       ELSE IF Includes("expired") THEN "PROXY_TOKEN_EXPIRED"
       ELSE "PROXY_TOKEN_INVALID"

\* ALLOWED_GIT_PATHS.test(path):
\* ^/.+/.+(\.git)?/(info/refs|git-upload-pack|git-receive-pack)$
AllowedGitPath(path) ==
    \E t \in {<<"/", "info", "/", "refs">>, <<"/", "git-upload-pack">>,
              <<"/", "git-receive-pack">>} :
        /\ Len(t) <= Len(path)
        /\ SubSeq(path, Len(path) - Len(t) + 1, Len(path)) = t
        /\ LET P == SubSeq(path, 1, Len(path) - Len(t))
           IN /\ Len(P) >= 4
              /\ P[1] = "/"
              /\ \E i \in 3..(Len(P) - 1) : P[i] = "/"

\* a transform that forwards every request
TransformForwards(name, path, env) == "forward"

\* serviceConfig.transform: a Response (500 without the credential, 400 for
\* a path that is no git path) or the request carrying the credential
Transform(name, path, env) ==
    IF name = "anthropic"
    THEN IF env.ANTHROPIC_API_KEY THEN "forward" ELSE "ANTHROPIC_API_KEY not configured"
    ELSE IF ~env.GITHUB_TOKEN THEN "GITHUB_TOKEN not configured"
    ELSE IF ~AllowedGitPath(path) THEN "Invalid git path"
    ELSE "forward"

\* the catch of the handler: errorResponse of a proxy error, a
\* ProxyTargetError for a TypeError whose message includes "fetch", and
\* anything else thrown again
Catch(error) ==
    IF error.proxy
    THEN [kind |-> "json", status |-> error.status, code |-> error.code, body |-> error.params]
    ELSE IF error.typeError /\ error.fetch
    THEN [kind |-> "json", status |-> 502, code |-> "PROXY_TARGET_ERROR",
          body |-> <<"unknown", "unknown">>]
    ELSE [kind |-> "thrown", status |-> 0, code |-> "", body |-> <<>>]

RECURSIVE JoinSegments(_)
\* "/" + segment, for each segment
JoinSegments(segs) ==
    IF segs = <<>> THEN <<>> ELSE <<"/">> \o Head(segs) \o JoinSegments(Tail(segs))

\* the headers of a request that matter here; <<>> for a header not set
NoHeaders == [h \in {"x-api-key", "Authorization", "User-Agent"} |-> <<>>]

\* the request of the sandbox: the token is where validate of the service
\* reads it, x-api-key for anthropic and Authorization: Bearer for github
RequestHeaders(name, token) ==
    IF name = "anthropic"
    THEN [NoHeaders EXCEPT !["x-api-key"] = <<token>>]
    ELSE [NoHeaders EXCEPT !["Authorization"] = <<"Bearer ", token>>]

\* a transform that leaves the headers as they came
HeadersKept(name, headers, env) == headers

\* req.headers.set of transform, on the copy of the request's headers
TransformedHeaders(name, headers, env) ==
    IF name = "anthropic"
    THEN [headers EXCEPT !["x-api-key"] = <<"ANTHROPIC_API_KEY">>]
    ELSE [headers EXCEPT !["Authorization"] =
                             <<"Basic ", "btoa", "x-access-token:", "GITHUB_TOKEN">>,
                         !["User-Agent"] = <<"Sandbox-Git-Proxy">>]

\* a request arrives: its pathname and the token its credential header holds
InitProxy ==
    /\ sessRec = EmptyMap
    /\ sessIdx = AbsentIndex
    /\ runRec = EmptyMap
    /\ runIdx = AbsentRunIndex
    /\ etagCounter = 0
    /\ proc = [p \in Procs |-> Idle]
    /\ calls = 0
    /\ called = {}
    /\ wf = NoWorkflow
    /\ \E prefix \in {<<"/", "proxy", "/", "github">>, <<"/", "proxy", "/", "anthropic">>,
                      <<"/", "proxy", "/", "constructor">>, <<"/", "proxy", "/", "gitlab">>,
                      <<"/", "proxy", "foo">>, <<"/", "proxy">>, <<"/", "mcp">>},
          n \in 0..MaxSegments,
          token \in {"none", "valid", "expired", "bad-signature", "malformed", "no-sandboxId"} :
          \E segs \in [1..n -> {<<>>, <<"o">>, <<"r", ".git">>, <<"info", "/", "refs">>,
                                <<"git-upload-pack">>, <<"git-receive-pack">>, <<"pulls">>}] :
             px = [pc |-> "parse", pathname |-> prefix \o JoinSegments(segs), token |-> token,
                   service |-> <<>>, path |-> <<>>, verdict |-> "none",
                   env |-> [GITHUB_TOKEN |-> FALSE, ANTHROPIC_API_KEY |-> FALSE],
                   transformed |-> FALSE, forwarded |-> NoHeaders,
                   upstream |-> "none", fetchError |-> FALSE,
                   response |-> [kind |-> "none", status |-> 0, code |-> "", body |-> <<>>]]

\* the handler of createProxyHandler({mountPath: "/proxy", services:
\* {anthropic, github}}), one step at a time: parseProxyPath, the lookup of
\* the service, validate, verifyProxyTokenAsync, transform, fetch
ProxyStep ==
    LET Throw(error) == [px EXCEPT !.pc = "done", !.response = Catch(error)]
        ProxyError(status, code, params) ==
            [proxy |-> TRUE, status |-> status, code |-> code, params |-> params,
             typeError |-> FALSE, fetch |-> FALSE]
        OtherError(typeError, fetch) ==
            [proxy |-> FALSE, status |-> 0, code |-> "", params |-> <<>>,
             typeError |-> typeError, fetch |-> fetch]
        config == ServiceLookup(px.service)
    IN
    /\ \/ /\ px.pc = "parse"
          /\ LET r == ParseProxyPath(px.pathname, <<"/", "proxy">>)
             IN px' = IF r.ok
                      THEN [px EXCEPT !.pc = "lookup", !.service = r.service, !.path = r.path]
                      ELSE Throw(ProxyError(400, r.code, <<"/proxy">>))
       \/ /\ px.pc = "lookup"
          /\ px' = IF config.kind = "undefined"
                   THEN Throw(ProxyError(404, "PROXY_SERVICE_NOT_FOUND",
                                         <<"anthropic", "github">>))
                   ELSE [px EXCEPT !.pc = "validate"]
       \/ /\ px.pc = "validate"
             \* an inherited member has no validate: the call is a TypeError
          /\ px' = IF config.kind = "inherited" THEN Throw(OtherError(TRUE, FALSE))
                   ELSE IF px.token = "none"
                   THEN Throw(ProxyError(401, "PROXY_TOKEN_MISSING", <<config.name>>))
                   ELSE [px EXCEPT !.pc = "verify"]
       \/ /\ px.pc = "verify"
             \* Effect.runPromise rejects with the error of the effect, or
             \* with a FiberFailure that wraps it
          /\ LET code == VerifyProxyToken(px.token)
             IN \E wrapped \in BOOLEAN :
                   px' = IF code = ""
                         THEN [px EXCEPT !.pc = "transform", !.verdict = "payload"]
                         ELSE [Throw(IF wrapped THEN OtherError(FALSE, FALSE)
                                     ELSE ProxyError(401, code, <<>>))
                                  EXCEPT !.verdict = code]
       \/ /\ px.pc = "transform"
          /\ \E env \in [GITHUB_TOKEN : BOOLEAN, ANTHROPIC_API_KEY : BOOLEAN] :
                LET result == Transform(config.name, px.path, env)
                IN px' = IF result = "forward"
                         THEN [px EXCEPT !.pc = "fetch", !.env = env, !.transformed = TRUE,
                                         !.forwarded =
                                             TransformedHeaders(config.name,
                                                 RequestHeaders(config.name, px.token), env)]
                         ELSE [px EXCEPT !.pc = "done", !.env = env, !.transformed = TRUE,
                                         !.response = [kind |-> "text",
                                                       status |-> IF result = "Invalid git path"
                                                                  THEN 400 ELSE 500,
                                                       code |-> "", body |-> <<result>>]]
       \/ /\ px.pc = "fetch"
             \* fetch answers, or rejects with a network error of some class
             \* and message
          /\ \/ px' = [px EXCEPT !.pc = "done", !.upstream = "contacted",
                                 !.response = [kind |-> "upstream", status |-> 200,
                                               code |-> "", body |-> <<>>]]
             \/ \E typeError \in BOOLEAN, fetch \in BOOLEAN :
                   px' = [Throw(OtherError(typeError, fetch))
                             EXCEPT !.upstream = "contacted", !.fetchError = TRUE]
    /\ UNCHANGED <<storeVars, wf>>

SpecProxy == InitProxy /\ [][ProxyStep]_vars

\* what the request is, read from the request alone
RequestParse == ParseProxyPath(px.pathname, <<"/", "proxy">>)
RequestService == ServiceLookup(RequestParse.service)

\* C15: transform is invoked and the upstream contacted only for a request
\* whose path parsed, whose service is in the registry and whose token is
\* present, correctly signed and unexpired
C15_ChecksBeforeSecret ==
    (px.transformed \/ px.upstream = "contacted") =>
        /\ RequestParse.ok
        /\ RequestService.kind = "config"
        /\ px.token = "valid"

\* a verified request reached the upstream
C15_Witness == px.upstream = "contacted" /\ px.token = "valid" /\ px.transformed

\* the first check that the request fails, in the order path, service, token
\* presence, token validity: its status and code, or <<0, "">>
ExpectedFailure ==
    CASE ~RequestParse.ok -> <<400, "PROXY_PATH_INVALID">>
      [] RequestParse.ok /\ RequestService.kind # "config" -> <<404, "PROXY_SERVICE_NOT_FOUND">>
      [] RequestParse.ok /\ RequestService.kind = "config" /\ px.token = "none" ->
             <<401, "PROXY_TOKEN_MISSING">>
      [] RequestParse.ok /\ RequestService.kind = "config" /\ px.token \notin {"none", "valid"} ->
             <<401, "PROXY_TOKEN_">>
      [] OTHER -> <<0, "">>

\* C16: a request that fails a check is answered with JSON {error, code} and
\* the status and code of the first failing check: 400 PROXY_PATH_INVALID,
\* 404 PROXY_SERVICE_NOT_FOUND, 401 PROXY_TOKEN_MISSING, 401
\* PROXY_TOKEN_EXPIRED or PROXY_TOKEN_INVALID
C16_FirstFailingCheck ==
    (px.pc = "done" /\ ExpectedFailure[1] # 0) =>
        /\ px.response.kind = "json"
        /\ px.response.status = ExpectedFailure[1]
        /\ IF ExpectedFailure[2] = "PROXY_TOKEN_"
           THEN px.response.code \in {"PROXY_TOKEN_EXPIRED", "PROXY_TOKEN_INVALID"}
           ELSE px.response.code = ExpectedFailure[2]

\* C17: verification of a correctly signed token whose exp has passed fails
\* as EXPIRED, of a token with a bad signature, a malformed token or a token
\* without a required claim as INVALID
C17_ExpiredIsNotInvalid ==
    px.verdict # "none" =>
        /\ px.token = "expired" => px.verdict = "PROXY_TOKEN_EXPIRED"
        /\ px.token \in {"bad-signature", "malformed", "no-sandboxId"} =>
               px.verdict = "PROXY_TOKEN_INVALID"

\* the github transform was invoked for a path that is no git path
GitPathRefused ==
    /\ px.pc = "done"
    /\ px.transformed
    /\ RequestService.name = "github"
    /\ ~AllowedGitPath(px.path)

\* C18: a github request whose target path does not match the pattern of
\* git paths is answered 400 'Invalid git path' and does not reach the
\* upstream
C18_InvalidGitPathIs400 ==
    GitPathRefused =>
        /\ px.upstream = "none"
        /\ px.response.kind = "text"
        /\ px.response.status = 400
        /\ px.response.body = <<"Invalid git path">>

\* C18 as the code has it: such a request never reaches the upstream; it is
\* answered 400 'Invalid git path' when GITHUB_TOKEN is configured and 500
\* 'GITHUB_TOKEN not configured' when it is not
C18_InvalidGitPathRefused ==
    GitPathRefused =>
        /\ px.upstream = "none"
        /\ px.response.kind = "text"
        /\ px.response.status = IF px.env.GITHUB_TOKEN THEN 400 ELSE 500
        /\ px.response.body = IF px.env.GITHUB_TOKEN THEN <<"Invalid git path">>
                              ELSE <<"GITHUB_TOKEN not configured">>

\* a verified request for /o/pulls of github was answered 400
C18_Witness ==
    /\ GitPathRefused
    /\ px.env.GITHUB_TOKEN
    /\ px.path = <<"/", "o", "/", "pulls">>
    /\ px.response.status = 400

\* C20: a network error raised by fetch is answered 502 PROXY_TARGET_ERROR
\* with a message that names the target of the service, and is never thrown
\* out of the handler
C20_NetworkErrorIs502 ==
    px.fetchError =>
        /\ px.response.kind = "json"
        /\ px.response.status = 502
        /\ px.response.code = "PROXY_TARGET_ERROR"
        /\ \E i \in 1..Len(px.response.body) : px.response.body[i] = RequestService.target

(***************************************************************************)
(* parseProxyPath on every pathname over "/", "proxy", "x" and every       *)
(* spelling of the mount paths "proxy" and "".                             *)
(***************************************************************************)
InitParse ==
    /\ sessRec = EmptyMap
    /\ sessIdx = AbsentIndex
    /\ runRec = EmptyMap
    /\ runIdx = AbsentRunIndex
    /\ etagCounter = 0
    /\ proc = [p \in Procs |-> Idle]
    /\ calls = 0
    /\ called = {}
    /\ wf = NoWorkflow
    /\ \E n \in 0..MaxPathLen, name \in {<<>>, <<"proxy">>},
          lead \in {<<>>, <<"/">>}, trail \in {<<>>, <<"/">>} :
          \E pathname \in [1..n -> {"/", "proxy", "x"}] :
             px = [pc |-> "call", pathname |-> pathname, mountName |-> name,
                   mountPath |-> lead \o name \o trail,
                   result |-> [ok |-> FALSE, code |-> "", service |-> <<>>, path |-> <<>>]]

\* parseProxyPath(pathname, mountPath)
ParseCall ==
    /\ px.pc = "call"
    /\ px' = [px EXCEPT !.pc = "returned", !.result = ParseProxyPath(px.pathname, px.mountPath)]
    /\ UNCHANGED <<storeVars, wf>>

SpecParse == InitParse /\ [][ParseCall]_vars

\* s begins with t
BeginsWith(s, t) == Len(t) <= Len(s) /\ SubSeq(s, 1, Len(t)) = t

\* C19: parseProxyPath returns {service, path} with a non-empty service that
\* holds no slash and a path that starts with "/", the two making up the
\* pathname behind the mount, or throws PROXY_PATH_INVALID; it throws for a
\* pathname that is not mount + "/" + ..., for the mount alone and for an
\* empty service segment
C19_ParseTotal ==
    px.pc = "returned" =>
        LET r == px.result
            mount == <<"/">> \o px.mountName
        IN /\ r.ok =>
                 /\ r.service # <<>>
                 /\ \A i \in 1..Len(r.service) : r.service[i] # "/"
                 /\ r.path # <<>>
                 /\ Head(r.path) = "/"
                 /\ \/ px.pathname = mount \o <<"/">> \o r.service \o r.path
                    \/ r.path = <<"/">> /\ px.pathname = mount \o <<"/">> \o r.service
           /\ ~r.ok => r.code = "PROXY_PATH_INVALID"
           /\ ~BeginsWith(px.pathname, mount \o <<"/">>) => ~r.ok
           /\ px.pathname = mount \o <<"/">> => ~r.ok
           /\ BeginsWith(px.pathname, mount \o <<"/", "/">>) => ~r.ok

\* /proxyx/x was rejected although it begins with the mount /proxy
C19_Witness ==
    /\ px.pc = "returned"
    /\ px.mountPath = <<"/", "proxy", "/">>
    /\ px.pathname = <<"/", "proxy", "x", "/">>
    /\ ~px.result.ok
    /\ px.result.code = "PROXY_PATH_INVALID"

(***************************************************************************)
(* SpecUpsert: concurrent upserts (putSession, putRun, completeRun) on an  *)
(* empty bucket, any of which may be cut short between two bucket calls.   *)
(***************************************************************************)
Upserts == {"putSession", "putRun", "completeRun"}
Crashed == [tag |-> "crashed", id |-> "", cause |-> ""]

\* the worker running the call is terminated between two bucket calls:
\* the rest of the call never runs
Crash(p) ==
    /\ proc[p].pc # "idle"
    /\ proc' = [proc EXCEPT ![p] = [Idle EXCEPT !.op = proc[p].op, !.id = proc[p].id,
                                       !.result = Crashed]]
    /\ UNCHANGED <<sessVars, runVars, etagCounter, hist>>

NextUpsert ==
    \/ \E p \in Procs :
          calls < MaxCalls /\ PutSessionRecord(p, InitialSession) /\ UNCHANGED otherVars
    \/ \E p \in Procs, id \in RunIds :
          calls < MaxCalls /\ PutRunRecord(p, [InitialRun EXCEPT !.runId = id])
          /\ UNCHANGED otherVars
    \/ \E p \in Procs, id \in RunIds :
          calls < MaxCalls
          /\ CompleteRunGet(p, id, [success |-> TRUE, title |-> Undefined, output |-> Undefined,
                                   error |-> Undefined], MaxTime)
          /\ UNCHANGED otherVars
    \/ \E p \in Procs : CompleteRunPut(p) /\ UNCHANGED otherVars
    \/ \E p \in Procs : SessionReadIndex(p) /\ UNCHANGED otherVars
    \/ \E p \in Procs : SessionWriteIndex(p) /\ UNCHANGED otherVars
    \/ \E p \in Procs : SessionWriteConflict(p) /\ UNCHANGED otherVars
    \/ \E p \in Procs : RunReadIndex(p) /\ UNCHANGED otherVars
    \/ \E p \in Procs : RunWriteIndex(p) /\ UNCHANGED otherVars
    \/ \E p \in Procs : RunWriteConflict(p) /\ UNCHANGED otherVars
    \/ \E p \in Procs : Crash(p) /\ UNCHANGED otherVars

SpecUpsert == Init /\ [][NextUpsert]_vars

\* C26: an upsert that has reached its index update has written its record,
\* and every entry of either index has its record in the bucket, in every
\* state, also after an upsert was cut short between two bucket calls.
C26_RecordBeforeIndex ==
    /\ \A p \in DOMAIN proc :
          (proc[p].op \in Upserts /\ proc[p].pc \in {"read", "write"}) =>
              IF proc[p].op = "putSession"
              THEN proc[p].id \in DOMAIN sessRec
              ELSE proc[p].id \in DOMAIN runRec
    /\ \A id \in DOMAIN sessIdx.sessions : id \in DOMAIN sessRec
    /\ \A id \in RunIdsIn(runIdx.runs) : id \in DOMAIN runRec

\* a putRun was cut short after its record write and left an orphan record,
\* while a completeRun of another run wrote its entry
C26_Witness ==
    /\ proc[1].op = "putRun" /\ proc[1].result = Crashed
    /\ proc[1].id \in DOMAIN runRec
    /\ proc[1].id \notin RunIdsIn(runIdx.runs)
    /\ proc[2].op = "completeRun" /\ proc[2].result = Ok
    /\ proc[2].id \in RunIdsIn(runIdx.runs)

(***************************************************************************)
(* SpecCascade: deleteRunsForSession on a bucket whose run index holds up  *)
(* to MaxListed runs, each with its record; bucket.delete may throw.       *)
(***************************************************************************)
\* bucket.delete of a run record throws: the error of Effect.tryPromise is
\* yielded inside the for loop, so the call fails with it and the deletes
\* of the remaining run ids are not made
DeleteRunsForSessionRecordFails(p) ==
    /\ proc[p].pc = "purge"
    /\ proc' = [proc EXCEPT ![p] =
                   [Idle EXCEPT !.op = proc[p].op, !.id = proc[p].id, !.pre = proc[p].pre,
                                !.result = RunStorageWriteError(Head(proc[p].todo),
                                                                "delete failed")]]
    /\ UNCHANGED <<sessVars, runVars, etagCounter, hist>>

NextCascade ==
    \/ \E sid \in SessionIds :
          calls < 1 /\ DeleteRunsForSessionFind(1, sid) /\ UNCHANGED otherVars
    \/ RunReadIndex(1) /\ UNCHANGED otherVars
    \/ RunWriteIndex(1) /\ UNCHANGED otherVars
    \/ DeleteRunsForSessionRecord(1) /\ UNCHANGED otherVars
    \/ DeleteRunsForSessionRecordFails(1) /\ UNCHANGED otherVars

SpecCascade == InitList /\ [][NextCascade]_vars

\* C27: a deleteRunsForSession(X) that has updated the index ends
\* successfully also when a bucket.delete failed, with the record of every
\* other run it found deleted; and the index never lists a run of X whose
\* record the cascade has deleted.
C27_CascadeBestEffort ==
    \A p \in DOMAIN proc :
        LET found == RunIdsOfSession(proc[p].pre.runs, proc[p].id)
        IN /\ (proc[p].op = "deleteRunsForSession" /\ proc[p].pc = "idle"
               /\ proc[p].result # NoResult) =>
                  /\ proc[p].result = Ok
                  /\ \A i \in DOMAIN found : found[i] \notin DOMAIN runRec
           /\ (proc[p].op = "deleteRunsForSession" /\ proc[p].pc = "purge") =>
                  \A i \in DOMAIN found :
                      found[i] \notin DOMAIN runRec => found[i] \notin RunIdsIn(runIdx.runs)

(***************************************************************************)
(* SpecComplete: one completeRun of a stored run, with every field of the  *)
(* record and of the result.                                               *)
(***************************************************************************)
\* the record of the run before the call: the fields of RunRecord
ExistingRuns ==
    [runId : {"r1"}, sessionId : SessionIds, workflowId : {"wf-1"},
     status : {"started", "running"}, task : {"Add README"},
     title : {"Processing...", "Old title"}, model : {"claude-sonnet-4-5"},
     startedAt : 1..MaxTime, completedAt : {NoTime}, result : {NoRunResult}]

\* the results a caller can give to completeRun
FullResults ==
    [success : BOOLEAN, title : {Undefined, "Add README"},
     output : {Undefined, "done"}, error : {Undefined, "Timeout"}]

\* the bucket holds one run, stored by putRun; wf keeps the record as it was
\* and the arguments of the call
InitComplete ==
    /\ sessRec = EmptyMap
    /\ sessIdx = AbsentIndex
    /\ \E r \in ExistingRuns :
          /\ runRec = MapSet(EmptyMap, "r1", r)
          /\ runIdx = [exists |-> TRUE, etag |-> 1, runs |-> <<RunToIndexEntry(r)>>]
          /\ wf = [existingRun |-> r, given |-> <<>>]
    /\ etagCounter = 1
    /\ proc = [p \in {1} |-> Idle]
    /\ calls = 0
    /\ called = {}
    /\ px = NoProxy

NextComplete ==
    \/ \E res \in FullResults, now \in 1..MaxTime :
          /\ calls < 1
          /\ CompleteRunGet(1, "r1", res, now)
          /\ wf' = [wf EXCEPT !.given = <<[result |-> res, now |-> now]>>]
          /\ UNCHANGED px
    \/ CompleteRunPut(1) /\ UNCHANGED otherVars
    \/ RunReadIndex(1) /\ UNCHANGED otherVars
    \/ RunWriteIndex(1) /\ UNCHANGED otherVars

SpecComplete == InitComplete /\ [][NextComplete]_vars

\* C28: when completeRun of a stored run has returned, the record has status
\* completed or failed by success, completedAt set to the time of the call,
\* the given title or else the old one, result {success, output or "",
\* error}, the old runId, sessionId, workflowId, task, model and startedAt,
\* and the index entry has the record's status, title and completedAt.
C28_CompleteRunUpdate ==
    (proc[1].op = "completeRun" /\ proc[1].pc = "idle" /\ proc[1].result = Ok) =>
        LET old == wf.existingRun
            res == wf.given[1].result
            run == runRec["r1"]
            entry == RunEntry(runIdx.runs, "r1")
        IN /\ run.status = (IF res.success THEN "completed" ELSE "failed")
           /\ run.completedAt = wf.given[1].now
           /\ run.title = (IF res.title = Undefined THEN old.title ELSE res.title)
           /\ run.result = <<[success |-> res.success,
                              output |-> IF res.output = Undefined THEN "" ELSE res.output,
                              error |-> res.error]>>
           /\ \A f \in {"runId", "sessionId", "workflowId", "task", "model", "startedAt"} :
                 run[f] = old[f]
           /\ entry.status = run.status
           /\ entry.title = run.title
           /\ entry.completedAt = run.completedAt

\* a failed completion with no title and no output has returned
C28_Witness ==
    /\ proc[1].op = "completeRun" /\ proc[1].pc = "idle" /\ proc[1].result = Ok
    /\ wf.given[1].result = [success |-> FALSE, title |-> Undefined, output |-> Undefined,
                             error |-> "Timeout"]
    /\ wf.existingRun.title = "Old title"
    /\ runRec["r1"].status = "failed"

(***************************************************************************)
(* SpecRemoved: task 1 completes runs while task 2 deletes them, on a      *)
(* bucket that holds two runs of one session.                              *)
(***************************************************************************)
\* the bucket after putRun of r1 and r2, both of session s1
InitRemoved ==
    /\ sessRec = EmptyMap
    /\ sessIdx = AbsentIndex
    /\ runRec = [id \in {"r1", "r2"} |-> [InitialRun EXCEPT !.runId = id]]
    /\ runIdx = [exists |-> TRUE, etag |-> 2,
                 runs |-> <<RunToIndexEntry([InitialRun EXCEPT !.runId = "r1"]),
                            RunToIndexEntry([InitialRun EXCEPT !.runId = "r2"])>>]
    /\ etagCounter = 2
    /\ proc = [p \in {1, 2} |-> Idle]
    /\ calls = 0
    /\ called = {}
    /\ wf = NoWorkflow
    /\ px = NoProxy

NextRemoved ==
    \/ \E id \in {"r1", "r2"}, res \in CompleteResults :
          calls < MaxCalls /\ CompleteRunGet(1, id, res, MaxTime) /\ UNCHANGED otherVars
    \/ \E id \in {"r1", "r2"} :
          calls < MaxCalls /\ CompleteRunNotFound(1, id) /\ UNCHANGED otherVars
    \/ CompleteRunPut(1) /\ UNCHANGED otherVars
    \/ \E id \in {"r1", "r2"} :
          calls < MaxCalls /\ DeleteRunRecord(2, id) /\ UNCHANGED otherVars
    \/ calls < MaxCalls /\ DeleteRunsForSessionFind(2, "s1") /\ UNCHANGED otherVars
    \/ DeleteRunsForSessionRecord(2) /\ UNCHANGED otherVars
    \/ \E p \in {1, 2} : RunReadIndex(p) /\ UNCHANGED otherVars
    \/ \E p \in {1, 2} : RunWriteIndex(p) /\ UNCHANGED otherVars
    \/ \E p \in {1, 2} : RunWriteConflict(p) /\ UNCHANGED otherVars

SpecRemoved == InitRemoved /\ [][NextRemoved]_vars

\* C29: a completeRun that starts when the run has no record, never stored
\* or removed by deleteRun or deleteRunsForSession, ends at once with the
\* read error "Run not found" for that run id, and the bucket is unchanged.
C29_CompleteRunNotFound ==
    [][(proc[1].pc = "idle" /\ proc'[1] # proc[1] /\ proc'[1].op = "completeRun"
        /\ proc'[1].id \notin DOMAIN runRec) =>
           /\ proc'[1].pc = "idle"
           /\ proc'[1].result = RunStorageReadError(proc'[1].id, "Run not found")
           /\ UNCHANGED <<sessVars, runVars, etagCounter>>]_vars

\* completeRun of r1 failed with "Run not found" after deleteRunsForSession
\* removed the record
C29_Witness ==
    /\ proc[1].op = "completeRun" /\ proc[1].pc = "idle"
    /\ proc[1].result = RunStorageReadError("r1", "Run not found")
    /\ proc[2].op = "deleteRunsForSession"
    /\ "r1" \notin DOMAIN runRec
    /\ "r1" \notin RunIdsIn(runIdx.runs)

(***************************************************************************)
(* The tool opencode_list_runs (src/agent/mcp-agent.ts) on the bucket of   *)
(* SpecList.                                                               *)
(***************************************************************************)
\* listRunsInputSchema: limit is an integer from 1 when given
ListRunsInputs ==
    [sessionId : SessionIds \cup {Undefined},
     status : {"started", "completed", Undefined},
     before : {NoNumber} \cup (0..(MaxTime + 1)),
     limit : {NoNumber} \cup (1..MaxLimit)]

\* params.limit ?? 10
ToolLimit(params) == IF params.limit # NoNumber THEN params.limit ELSE 10

\* the handler: listRuns with limit + 1, hasMore, the first limit runs
ListRunsTool(params) ==
    LET limit == ToolLimit(params)
        options == [sessionId |-> params.sessionId, status |-> params.status,
                    before |-> params.before, limit |-> limit + 1]
        result == ListRuns(ReadRunIndexResult(runIdx).index, options)
        hasMore == Len(result.runs) > limit
        returnRuns == IF hasMore THEN SubSeq(result.runs, 1, limit) ELSE result.runs
    IN /\ ListRunsCall(1, options)
       /\ wf' = [tool |-> "opencode_list_runs", params |-> params,
                 response |-> [runs |-> returnRuns, hasMore |-> hasMore]]
       /\ UNCHANGED px

NextListTool ==
    \E params \in ListRunsInputs : calls < 1 /\ ListRunsTool(params)

SpecListTool == InitList /\ [][NextListTool]_vars

ListRunsToolAsClaimed ==
    LET matching == {i \in DOMAIN runIdx.runs : Matches(runIdx.runs[i], wf.params)}
    IN /\ wf.response.hasMore = (Cardinality(matching) > ToolLimit(wf.params))
       /\ ListedAsClaimed(runIdx.runs, [wf.params EXCEPT !.limit = ToolLimit(wf.params)],
                          [runs |-> wf.response.runs, total |-> Cardinality(matching)])

\* C23: list_runs returns the first limit matching runs (sessionId equal,
\* status equal, startedAt < before), newest first, and hasMore is true
\* exactly when more than limit runs match.
C23_ListRunsTool ==
    wf # NoWorkflow => ListRunsToolAsClaimed

\* the same for every call but those with before = 0
C23_ListRunsToolNonZeroBefore ==
    (wf # NoWorkflow /\ wf.params.before # 0) => ListRunsToolAsClaimed

\* two completed runs match, limit 1: one run is returned and hasMore is true
C23_MoreThanLimit ==
    /\ wf # NoWorkflow
    /\ wf.params = [sessionId |-> Undefined, status |-> "completed", before |-> NoNumber,
                    limit |-> 1]
    /\ Len(wf.response.runs) = 1
    /\ wf.response.hasMore
    /\ Len(runIdx.runs) = 3

(***************************************************************************)
(* Routing of a request by the two fetch handlers (src/index.ts as of      *)
(* part_008, and src/src/index.ts with its Hono app).                      *)
(***************************************************************************)
\* pathnames, as sequences of "/" and slash-free pieces
RoutedPaths ==
    {<<"/">>, <<"/", "health">>, <<"/", "mcp">>, <<"/", "mcp", "/">>,
     <<"/", "mcp", "/", "sse">>, <<"/", "mcp", "x">>, <<"/", "proxy", "/", "anthropic">>,
     <<"/", "session", "/", "a1b2c3d4">>}

\* the Authorization header: absent, or a scheme with its blank and the rest
AuthorizationHeaders ==
    {<<>>, <<"Bearer ", "AUTH_TOKEN">>, <<"Bearer ", "other">>, <<"Bearer ">>,
     <<"Basic ", "AUTH_TOKEN">>, <<"bearer ", "AUTH_TOKEN">>, <<"AUTH_TOKEN">>}

InitRouting ==
    /\ sessRec = EmptyMap
    /\ sessIdx = AbsentIndex
    /\ runRec = EmptyMap
    /\ runIdx = AbsentRunIndex
    /\ etagCounter = 0
    /\ proc = [p \in {1} |-> Idle]
    /\ calls = 0
    /\ called = {}
    /\ wf = NoWorkflow
    /\ \E pathname \in RoutedPaths, header \in AuthorizationHeaders,
          worker \in {"index", "hono"} :
          px = [pc |-> "request", worker |-> worker, pathname |-> pathname,
                authorization |-> header, handler |-> "none", status |-> 0]

\* the middleware of app.use("/mcp/*"): 401, or 0 for next()
AuthMiddleware(authHeader) ==
    IF authHeader = <<>> THEN 401
    ELSE IF Head(authHeader) # "Bearer " THEN 401
    ELSE IF Tail(authHeader) # <<"AUTH_TOKEN">> THEN 401
    ELSE 0

\* the path pattern "/mcp/*" of Hono: /mcp and everything under /mcp/
UnderMcp(pathname) == pathname = <<"/", "mcp">> \/ BeginsWith(pathname, <<"/", "mcp", "/">>)

\* fetch of src/index.ts (part_008): /health, /proxy/, /mcp, the web UI
IndexFetch ==
    /\ px.pc = "request"
    /\ px.worker = "index"
    /\ px' = IF px.pathname = <<"/", "health">>
             THEN [px EXCEPT !.pc = "done", !.handler = "health", !.status = 200]
             ELSE IF BeginsWith(px.pathname, <<"/", "proxy", "/">>)
             THEN [px EXCEPT !.pc = "done", !.handler = "proxy"]
             ELSE IF BeginsWith(px.pathname, <<"/", "mcp">>)
             THEN [px EXCEPT !.pc = "done", !.handler = "agent"]
             ELSE [px EXCEPT !.pc = "done", !.handler = "web"]
    /\ UNCHANGED <<storeVars, wf>>

\* fetch of src/src/index.ts: /mcp goes to the agent, the rest to the Hono
\* app with its middleware and routes
HonoFetch ==
    /\ px.pc = "request"
    /\ px.worker = "hono"
    /\ px' = IF BeginsWith(px.pathname, <<"/", "mcp">>)
             THEN [px EXCEPT !.pc = "done", !.handler = "agent"]
             ELSE IF UnderMcp(px.pathname) /\ AuthMiddleware(px.authorization) = 401
             THEN [px EXCEPT !.pc = "done", !.handler = "middleware", !.status = 401]
             ELSE IF px.pathname \in {<<"/">>, <<"/", "health">>}
             THEN [px EXCEPT !.pc = "done", !.handler = "app", !.status = 200]
             ELSE [px EXCEPT !.pc = "done", !.handler = "app", !.status = 404]
    /\ UNCHANGED <<storeVars, wf>>

NextRouting == IndexFetch \/ HonoFetch

SpecRouting == InitRouting /\ [][NextRouting]_vars

\* C25: a request to /mcp or a path under it whose Authorization header is
\* not "Bearer " followed by AUTH_TOKEN is answered 401 and is not handed to
\* the MCP agent.
C25_McpNeeds401 ==
    (px.pc = "done" /\ UnderMcp(px.pathname)
     /\ px.authorization # <<"Bearer ", "AUTH_TOKEN">>) =>
        (px.status = 401 /\ px.handler # "agent")

\* the credential header of a service and the secret its transform injects
CredentialHeader(name) == IF name = "anthropic" THEN "x-api-key" ELSE "Authorization"
SecretPresent(name, env) ==
    IF name = "anthropic" THEN env.ANTHROPIC_API_KEY ELSE env.GITHUB_TOKEN

\* C30: the request handed to fetch has the configured secret in the
\* credential header of its service (x-api-key: the API key; Authorization:
\* Basic base64("x-access-token:" + GITHUB_TOKEN)) and the proxy token
\* nowhere in that header; and when the secret is not in the environment the
\* answer is the 500 that names the variable, with the upstream not contacted.
C30_CredentialReplaced ==
    LET name == RequestService.name
        header == px.forwarded[CredentialHeader(name)]
    IN /\ (px.pc = "fetch" \/ px.upstream = "contacted") =>
             /\ header = IF name = "anthropic" THEN <<"ANTHROPIC_API_KEY">>
                         ELSE <<"Basic ", "btoa", "x-access-token:", "GITHUB_TOKEN">>
             /\ \A i \in DOMAIN header : header[i] # px.token
       /\ (px.transformed /\ ~SecretPresent(name, px.env)) =>
             /\ px.pc = "done"
             /\ px.upstream = "none"
             /\ px.response.status = 500
             /\ px.response.body = <<IF name = "anthropic"
                                     THEN "ANTHROPIC_API_KEY not configured"
                                     ELSE "GITHUB_TOKEN not configured">>

\* a git request was forwarded to the upstream with the Basic credential
C30_Witness ==
    /\ px.upstream = "contacted"
    /\ RequestService.name = "github"
    /\ px.token = "valid"
    /\ px.forwarded["User-Agent"] = <<"Sandbox-Git-Proxy">>

\* C22: the agent running run_task makes no call of the run store; as long
\* as no step of the workflow has started a call for the run, nothing is
\* stored under runs/; and every step that changes a run record or the run
\* index is a step of a bucket call made by the workflow's create-run or
\* complete-run step.
C22_DispatcherCreatesNoRun ==
    /\ [](proc[2].op \notin RunOps)
    /\ []("r1" \notin called => (runRec = EmptyMap /\ runIdx = AbsentRunIndex))
    /\ [][(runRec' # runRec \/ runIdx' # runIdx) =>
             /\ proc'[1] # proc[1]
             /\ proc'[2] = proc[2]
             /\ wf.step \in {"create-run", "complete-run"}]_vars

\* run_task has returned and the run record is in the bucket, put there by
\* the workflow
C22_Witness ==
    /\ wf.rt = "returned"
    /\ proc[2].op = "putSession" /\ proc[2].result = Ok
    /\ "r1" \in DOMAIN runRec
    /\ "r1" \in RunIdsIn(runIdx.runs)

(***************************************************************************)
(* The tools of the MCP agent (src/agent/mcp-agent.ts): one invocation of  *)
(* opencode_run_task, opencode_get_result or opencode_list_runs, on a      *)
(* bucket that holds run r1 and may hold session s1.                       *)
(***************************************************************************)
\* the sessions that may be stored: the fields run_task reads or writes;
\* repository is the one the session was created with (or none), clonedRepos
\* starts with it and grows by the repositories of later calls
StoredSessions ==
    {[sessionId |-> "s1", status |-> "active", createdAt |-> 1, lastActivity |-> 1,
      title |-> Undefined, workspacePath |-> "/workspace",
      clonedRepos |-> c[1], repository |-> c[2],
      opencodeSessionId |-> o] :
         c \in {<<<<>>, Undefined>>, <<<<"repoA">>, "repoA">>, <<<<"repoA">>, Undefined>>,
                <<<<"repoA", "repoB">>, "repoA">>},
         o \in {Undefined, "oc-1"}}

\* the inputs of a tool: sessionId and repository of run_task (a string or
\* not given), runId of get_result
ToolInputs ==
    [tool : {"opencode_run_task"}, sessionId : {Undefined, "", "s1", "s2"},
     repository : {Undefined, "repoA", "repoB"}, runId : {Undefined}]
    \cup [tool : {"opencode_get_result"}, sessionId : {Undefined},
          repository : {Undefined}, runId : {"r-init", "r2"}]
    \cup [tool : {"opencode_list_runs"}, sessionId : {Undefined},
          repository : {Undefined}, runId : {Undefined}]

NoResponse == [kind |-> "none", code |-> "", message |-> <<>>]

\* the agent: ready, or with no runtime (init not run), or with no base URL
\* (onConnect not run)
InitTools ==
    /\ \/ sessRec = EmptyMap /\ sessIdx = AbsentIndex /\ etagCounter = 1
       \/ \E s \in StoredSessions :
             /\ sessRec = MapSet(EmptyMap, "s1", s)
             /\ sessIdx = [exists |-> TRUE, etag |-> 2,
                           sessions |-> MapSet(EmptyMap, "s1", ToIndexEntry(s))]
             /\ etagCounter = 2
    /\ runRec = MapSet(EmptyMap, "r-init", InitialRun)
    /\ runIdx = [exists |-> TRUE, etag |-> 1, runs |-> <<RunToIndexEntry(InitialRun)>>]
    /\ proc = [p \in {1} |-> Idle]
    /\ calls = 0
    /\ called = {}
    /\ \E params \in ToolInputs, agent \in {"ready", "no-runtime", "no-baseUrl"} :
          wf = [pc |-> "start", params |-> params, agent |-> agent,
                before |-> [sessRec |-> sessRec, sessIdx |-> sessIdx],
                session |-> <<>>, isNewSession |-> FALSE, needsClone |-> FALSE,
                outcome |-> "success", events |-> <<>>, response |-> NoResponse,
                minted |-> 0, submitted |-> <<>>, thrown |-> FALSE]
    /\ px = NoProxy

\* ToolCallEventBuilder.setError without the change of the outcome
SetErrorKeepsOutcome(w) == w

\* ToolCallEventBuilder.setError
SetError(w) == [w EXCEPT !.outcome = "error"]

\* emitToolTelemetry: setOutcome("success") if success, then one event of
\* type tool.call with the outcome of the builder
EmitToolTelemetry(w, success) ==
    LET outcome == IF success THEN "success" ELSE w.outcome
    IN [w EXCEPT !.outcome = outcome, !.events = Append(w.events, outcome)]

\* formatDomainError: the tag of a session or storage error, UNKNOWN_ERROR
\* for anything else
FormatDomainError(error) ==
    [kind |-> "error",
     code |-> IF error.tag \in {"SessionNotFoundError", "RunNotFoundError",
                                "SessionStorageReadError", "SessionStorageWriteError",
                                "RunStorageReadError", "RunStorageWriteError"}
              THEN error.tag ELSE "UNKNOWN_ERROR",
     message |-> error.message]

\* a not-found path: the error is built, set, emitted and returned
ReturnNotFound(w, tag, noun, id) ==
    [EmitToolTelemetry(SetError(w), FALSE) EXCEPT
        !.pc = "done",
        !.response = FormatDomainError([tag |-> tag,
                                        message |-> <<noun, " \"", id, "\" not found">>])]

\* the catch of a handler: setError, emit, formatDomainError
CatchTool(w, tag, message) ==
    [EmitToolTelemetry(SetError(w), FALSE) EXCEPT
        !.pc = "done", !.thrown = TRUE,
        !.response = FormatDomainError([tag |-> tag, message |-> <<message>>])]

\* the session run_task creates; the id stands for randomUUID().slice(0, 8)
NewSession(params) ==
    [sessionId |-> "new1", status |-> "active", createdAt |-> MaxTime,
     lastActivity |-> MaxTime, title |-> Undefined, workspacePath |-> "/workspace",
     clonedRepos |-> IF StringGiven(params.repository) THEN <<params.repository>> ELSE <<>>,
     repository |-> IF StringGiven(params.repository) THEN params.repository ELSE Undefined,
     opencodeSessionId |-> Undefined]

\* a needsClone that does not look at clonedRepos
AlwaysNeedsClone(params, session) == StringGiven(params.repository)

\* needsClone, and the session with the repository added to clonedRepos
NeedsClone(params, session) ==
    /\ StringGiven(params.repository)
    /\ \A i \in DOMAIN session.clonedRepos : session.clonedRepos[i] # params.repository

WithClonedRepo(params, session) ==
    IF NeedsClone(params, session)
    THEN [session EXCEPT !.clonedRepos = Append(@, params.repository)]
    ELSE session

\* the params of EXECUTE_TASK_WORKFLOW.create
WorkflowParams(params, session, needsClone) ==
    [sessionId |-> session.sessionId, runId |-> "run-new",
     repositoryUrl |-> IF needsClone THEN params.repository ELSE session.repository,
     existingOpencodeSessionId |-> session.opencodeSessionId]

\* the handler of opencode_run_task, from one await to the next
RunTaskTool ==
    /\ wf.params.tool = "opencode_run_task"
    /\ \/ \* getRuntime throws, or getWebUiUrl of the new session does
          /\ wf.pc = "start"
          /\ \/ wf.agent = "no-runtime"
             \/ wf.agent = "no-baseUrl" /\ ~StringGiven(wf.params.sessionId)
          /\ wf' = CatchTool(wf, "Error", "not initialized")
          /\ UNCHANGED storeVars
       \/ \* if (params.sessionId): getSession, None is SessionNotFoundError
          /\ wf.pc = "start"
          /\ wf.agent # "no-runtime"
          /\ StringGiven(wf.params.sessionId)
          /\ \/ wf' = IF wf.params.sessionId \in DOMAIN sessRec
                      THEN [wf EXCEPT !.pc = "resolved",
                                      !.session = <<sessRec[wf.params.sessionId]>>]
                      ELSE ReturnNotFound(wf, "SessionNotFoundError", "Session",
                                          wf.params.sessionId)
             \/ wf' = CatchTool(wf, "SessionStorageReadError", "R2 get failed")
          /\ UNCHANGED storeVars
       \/ \* else: a new session, stored with putSession
          /\ wf.pc = "start"
          /\ wf.agent = "ready"
          /\ ~StringGiven(wf.params.sessionId)
          /\ \/ PutSessionRecord(1, NewSession(wf.params))
             \/ PutSessionRecordFails(1, NewSession(wf.params))
          /\ wf' = [wf EXCEPT !.pc = "saving", !.isNewSession = TRUE,
                              !.session = <<NewSession(wf.params)>>]
       \/ \* putSession returned or failed
          /\ wf.pc = "saving"
          /\ proc[1].pc = "idle"
          /\ wf' = IF proc[1].result = Ok THEN [wf EXCEPT !.pc = "resolved"]
                   ELSE CatchTool(wf, proc[1].result.tag, proc[1].result.cause)
          /\ UNCHANGED storeVars
       \/ \* needsClone, clonedRepos, createProxyToken
          /\ wf.pc = "resolved"
          /\ LET session == wf.session[1]
             IN \/ wf' = [wf EXCEPT !.pc = "workflow",
                                    !.needsClone = NeedsClone(wf.params, session),
                                    !.session = <<WithClonedRepo(wf.params, session)>>,
                                    !.minted = wf.minted + 1]
                \/ wf' = CatchTool(wf, "TokenCreationError", "sign failed")
          /\ UNCHANGED storeVars
       \/ \* EXECUTE_TASK_WORKFLOW.create; getBaseUrl is called for its params
          /\ wf.pc = "workflow"
          /\ \/ /\ wf.agent = "ready"
                /\ wf' = [wf EXCEPT !.pc = "update",
                             !.submitted = Append(wf.submitted,
                                 WorkflowParams(wf.params, wf.session[1], wf.needsClone))]
             \/ wf' = CatchTool(wf, "Error", "create failed")
          /\ UNCHANGED storeVars
       \/ \* putSession of the session with the new lastActivity
          /\ wf.pc = "update"
          /\ LET updatedSession == [wf.session[1] EXCEPT !.lastActivity = MaxTime,
                                                         !.status = "active"]
             IN \/ PutSessionRecord(1, updatedSession)
                \/ PutSessionRecordFails(1, updatedSession)
          /\ wf' = [wf EXCEPT !.pc = "updating"]
       \/ \* the answer {runId, sessionId, status: "started", webUiUrl}
          /\ wf.pc = "updating"
          /\ proc[1].pc = "idle"
          /\ wf' = IF proc[1].result = Ok
                   THEN [EmitToolTelemetry(wf, TRUE) EXCEPT
                            !.pc = "done",
                            !.response = [kind |-> "success", code |-> "started",
                                          message |-> <<"run-new", wf.session[1].sessionId>>]]
                   ELSE CatchTool(wf, proc[1].result.tag, proc[1].result.cause)
          /\ UNCHANGED storeVars
    /\ UNCHANGED px

\* the handlers of opencode_get_result and opencode_list_runs: the reads of
\* the stores answer or throw
ReadTool ==
    /\ wf.pc = "start"
    /\ \/ /\ wf.params.tool # "opencode_run_task"
          /\ wf.agent = "no-runtime"
          /\ wf' = CatchTool(wf, "Error", "not initialized")
       \/ /\ wf.params.tool = "opencode_get_result"
          /\ wf.agent # "no-runtime"
          /\ \/ wf' = IF wf.params.runId \in DOMAIN runRec
                      THEN [EmitToolTelemetry(wf, TRUE) EXCEPT
                               !.pc = "done",
                               !.response = [kind |-> "success",
                                             code |-> runRec[wf.params.runId].status,
                                             message |-> <<wf.params.runId>>]]
                      ELSE ReturnNotFound(wf, "RunNotFoundError", "Run", wf.params.runId)
             \/ wf' = CatchTool(wf, "RunStorageReadError", "R2 get failed")
       \/ /\ wf.params.tool = "opencode_list_runs"
          /\ wf.agent # "no-runtime"
          /\ \/ wf' = [EmitToolTelemetry(wf, TRUE) EXCEPT
                          !.pc = "done",
                          !.response = [kind |-> "success", code |-> "runs",
                                        message |-> <<>>]]
             \/ wf' = CatchTool(wf, "RunStorageReadError", "R2 get failed")
    /\ UNCHANGED <<storeVars, px>>

\* the index update of a putSession in flight, the bucket answering or not
ToolStoreStep ==
    /\ \/ SessionReadIndex(1)
       \/ SessionWriteIndex(1)
       \/ SessionReadIndexFails(1)
       \/ SessionWriteIndexFails(1)
    /\ UNCHANGED <<wf, px>>

NextTools == RunTaskTool \/ ReadTool \/ ToolStoreStep

SpecTools == InitTools /\ [][NextTools]_vars

\* run_task was given a sessionId under which no session was stored, and no
\* bucket call threw
NoSuchSession ==
    /\ wf.params.tool = "opencode_run_task"
    /\ wf.pc = "done"
    /\ wf.params.sessionId # Undefined
    /\ wf.params.sessionId \notin DOMAIN wf.before.sessRec
    /\ wf.agent = "ready"
    /\ ~wf.thrown

\* the answer and the effects of the not-found path
SessionNotFoundOnly ==
    /\ wf.response = [kind |-> "error", code |-> "SessionNotFoundError",
                      message |-> <<"Session", " \"", wf.params.sessionId, "\" not found">>]
    /\ sessRec = wf.before.sessRec
    /\ sessIdx = wf.before.sessIdx
    /\ wf.minted = 0
    /\ wf.submitted = <<>>

\* C21: run_task with a sessionId that has no session record answers
\* {code: "SessionNotFoundError", message: 'Session "<id>" not found'} and
\* writes no session record or index entry, mints no proxy token and submits
\* no workflow.
C21_SessionNotFound ==
    NoSuchSession => SessionNotFoundOnly

\* the same for every sessionId but the empty string
C21_SessionNotFoundNonEmpty ==
    (NoSuchSession /\ wf.params.sessionId # "") => SessionNotFoundOnly

\* run_task with the unknown sessionId s2 has answered
C21_UnknownSessionAnswered ==
    NoSuchSession /\ wf.params.sessionId = "s2" /\ "s1" \in DOMAIN sessRec

\* C24: an invocation of run_task, get_result or list_runs has emitted no
\* tool.call event before it returns and exactly one when it has returned,
\* on every path, and the outcome of the event is success exactly when the
\* answer is a success payload.
C24_OneTelemetryEvent ==
    IF wf.pc = "done"
    THEN /\ Len(wf.events) = 1
         /\ (wf.events[1] = "success") <=> (wf.response.kind = "success")
    ELSE wf.events = <<>>

\* run_task has created a session, submitted the workflow and answered, with
\* one event of outcome success
C24_Witness ==
    /\ wf.pc = "done"
    /\ wf.params.tool = "opencode_run_task"
    /\ wf.isNewSession
    /\ Len(wf.submitted) = 1
    /\ wf.response.kind = "success"
    /\ wf.events = <<"success">>

\* a tool has answered with a not-found error and one event of outcome error
C24_NotFoundPath ==
    /\ wf.pc = "done"
    /\ wf.response.code \in {"SessionNotFoundError", "RunNotFoundError"}
    /\ wf.events = <<"error">>

(***************************************************************************)
(* SpecSession: two run_task calls on session s1 (tasks 1 and 2) and the   *)
(* updateSessionAfterRun of a workflow's complete-run step (task 3), all   *)
(* concurrent, on a bucket that holds s1 or not.                           *)
(***************************************************************************)
\* the updates complete-run hands over: each given or not
SessionUpdates ==
    [opencodeSessionId : {Undefined, "oc-2"}, workspacePath : {Undefined, "/workspace/r"}]

InitSession ==
    /\ \/ sessRec = EmptyMap /\ sessIdx = AbsentIndex /\ etagCounter = 1
       \/ \E s \in StoredSessions :
             /\ sessRec = MapSet(EmptyMap, "s1", s)
             /\ sessIdx = [exists |-> TRUE, etag |-> 2,
                           sessions |-> MapSet(EmptyMap, "s1", ToIndexEntry(s))]
             /\ etagCounter = 2
    /\ runRec = MapSet(EmptyMap, "r-init", [InitialRun EXCEPT !.status = "completed"])
    /\ runIdx = [exists |-> TRUE, etag |-> 1,
                 runs |-> <<RunToIndexEntry([InitialRun EXCEPT !.status = "completed"])>>]
    /\ proc = [p \in {1, 2, 3} |-> Idle]
    /\ calls = 0
    /\ called = {}
    /\ \E r1 \in {Undefined, "repoA", "repoB"}, r2 \in {"repoA", "repoB"},
          updates \in SessionUpdates :
          wf = [a |-> [p \in {1, 2} |->
                          [pc |-> "start", repository |-> IF p = 1 THEN r1 ELSE r2,
                           session |-> <<>>, wrote |-> <<>>]],
                u |-> [pc |-> "start", updates |-> updates, session |-> <<>>,
                       wrote |-> <<>>]]
    /\ px = NoProxy

\* run_task({sessionId: "s1", repository}): getSession, clonedRepos, and
\* after the token and the workflow the putSession of the copy it read
AgentRunTask(p) ==
    /\ \/ /\ wf.a[p].pc = "start"
          /\ wf' = IF "s1" \in DOMAIN sessRec
                   THEN [wf EXCEPT !.a[p].pc = "resolved", !.a[p].session = <<sessRec["s1"]>>]
                   ELSE [wf EXCEPT !.a[p].pc = "done"]
          /\ UNCHANGED storeVars
       \/ /\ wf.a[p].pc = "resolved"
          /\ LET updatedSession ==
                    [WithClonedRepo(wf.a[p], wf.a[p].session[1]) EXCEPT
                        !.lastActivity = MaxTime, !.status = "active"]
             IN /\ PutSessionRecord(p, updatedSession)
                /\ wf' = [wf EXCEPT !.a[p].pc = "updating", !.a[p].wrote = <<updatedSession>>]
       \/ /\ wf.a[p].pc = "updating"
          /\ proc[p].pc = "idle"
          /\ wf' = [wf EXCEPT !.a[p].pc = "done"]
          /\ UNCHANGED storeVars
    /\ UNCHANGED px

\* an update that takes both values from the result, given or not
UpdatedSessionTakesAll(session, updates, now) ==
    [session EXCEPT !.opencodeSessionId = updates.opencodeSessionId,
                    !.workspacePath = updates.workspacePath,
                    !.lastActivity = now]

\* updatedSession of updateSessionAfterRun
UpdatedSession(session, updates, now) ==
    [session EXCEPT
        !.opencodeSessionId = IF updates.opencodeSessionId # Undefined
                              THEN updates.opencodeSessionId ELSE session.opencodeSessionId,
        !.workspacePath = IF updates.workspacePath # Undefined
                          THEN updates.workspacePath ELSE session.workspacePath,
        !.lastActivity = now]

\* updateSessionAfterRun(bucket, "s1", updates): getSession, a warning and
\* return for None, else putSession of the updated session
UpdateSessionAfterRun ==
    /\ \/ /\ wf.u.pc = "start"
          /\ wf' = IF "s1" \in DOMAIN sessRec
                   THEN [wf EXCEPT !.u.pc = "got", !.u.session = <<sessRec["s1"]>>]
                   ELSE [wf EXCEPT !.u.pc = "returned"]
          /\ UNCHANGED storeVars
       \/ /\ wf.u.pc = "got"
          /\ LET updatedSession == UpdatedSession(wf.u.session[1], wf.u.updates, MaxTime)
             IN /\ PutSessionRecord(3, updatedSession)
                /\ wf' = [wf EXCEPT !.u.pc = "putting", !.u.wrote = <<updatedSession>>]
       \/ /\ wf.u.pc = "putting"
          /\ proc[3].pc = "idle"
          /\ wf' = [wf EXCEPT !.u.pc = IF proc[3].result = Ok THEN "returned" ELSE "threw"]
          /\ UNCHANGED storeVars
    /\ UNCHANGED px

\* the index update of a putSession in flight
SessionStoreStep(p) ==
    /\ \/ SessionReadIndex(p)
       \/ SessionWriteIndex(p)
       \/ SessionWriteConflict(p)
    /\ UNCHANGED <<wf, px>>

NextSession ==
    \/ \E p \in {1, 2} : AgentRunTask(p)
    \/ UpdateSessionAfterRun
    \/ \E p \in {1, 2, 3} : SessionStoreStep(p)

SpecSession == InitSession /\ [][NextSession]_vars

\* C31: when updateSessionAfterRun finds no session record it returns
\* without a bucket write, so no record and no index entry is created by
\* it, and the run keeps its terminal status; when it finds the session, the
\* record it writes has opencodeSessionId and workspacePath of the result
\* where the result gives them, the new lastActivity, and every other field
\* as read.
C31_UpdateSessionAfterRun ==
    /\ (wf.u.pc = "returned" /\ wf.u.session = <<>>) =>
          /\ proc[3].op = "none"
          /\ wf.u.wrote = <<>>
    /\ runRec["r-init"].status = "completed"
    /\ wf.u.wrote # <<>> =>
          LET old == wf.u.session[1]
              new == wf.u.wrote[1]
              updates == wf.u.updates
          IN /\ new.opencodeSessionId = IF updates.opencodeSessionId # Undefined
                                        THEN updates.opencodeSessionId
                                        ELSE old.opencodeSessionId
             /\ new.workspacePath = IF updates.workspacePath # Undefined
                                    THEN updates.workspacePath ELSE old.workspacePath
             /\ new.lastActivity = MaxTime
             /\ \A f \in {"sessionId", "status", "createdAt", "title", "clonedRepos",
                          "repository"} : new[f] = old[f]

\* the update returned for a vanished session, the bucket holding no session
C31_Witness ==
    /\ wf.u.pc = "returned"
    /\ wf.u.session = <<>>
    /\ sessRec = EmptyMap
    /\ ~sessIdx.exists

\* a sequence without a repeated element
NoRepeat(seq) == \A i, j \in 1..Len(seq) : seq[i] = seq[j] => i = j

C32_Overlapping ==
    /\ wf.a[1].pc = "done" /\ wf.a[2].pc = "done"
    /\ wf.a[1].wrote # <<>> /\ wf.a[2].wrote # <<>>
    /\ wf.a[1].session[1].clonedRepos = <<>>
    /\ wf.a[2].session[1].clonedRepos = <<>>
    /\ wf.a[1].repository = "repoA" /\ wf.a[2].repository = "repoA"

\* C35: once updateSessionAfterRun has stored the session and every
\* run_task call has finished, the session record holds the
\* opencodeSessionId and the workspacePath that the update wrote.
C35_UpdateSurvivesRunTask ==
    (/\ wf.u.pc = "returned"
     /\ wf.u.wrote # <<>>
     /\ \A p \in {1, 2} : wf.a[p].pc \in {"start", "done"}
     /\ \A p \in {1, 2, 3} : proc[p].pc = "idle") =>
        /\ sessRec["s1"].opencodeSessionId = wf.u.wrote[1].opencodeSessionId
        /\ sessRec["s1"].workspacePath = wf.u.wrote[1].workspacePath

\* the same with no run_task call between its getSession and its putSession
\* while the update ran
C35_WithoutOverlap ==
    [][(/\ wf.u.pc = "got"
        /\ wf'.u.pc = "putting"
        /\ \A p \in {1, 2} : wf.a[p].pc \in {"start", "done"}) =>
           /\ sessRec'["s1"].opencodeSessionId = wf'.u.wrote[1].opencodeSessionId
           /\ sessRec'["s1"].workspacePath = wf'.u.wrote[1].workspacePath]_vars

\* C37: a run_task call that names a repository submits the workflow with
\* that repository as repositoryUrl.
C37_RepositoryUrlSubmitted ==
    (Len(wf.submitted) = 1 /\ StringGiven(wf.params.repository)) =>
        wf.submitted[1].repositoryUrl = wf.params.repository

\* the same for the calls whose repository is not yet in clonedRepos, or
\* is the repository of the session
C37_RepositoryUrlWhenNewOrFirst ==
    (/\ Len(wf.submitted) = 1
     /\ StringGiven(wf.params.repository)
     /\ wf.needsClone \/ wf.session[1].repository = wf.params.repository) =>
        wf.submitted[1].repositoryUrl = wf.params.repository

\* a new session and an existing session without the repository, both
\* submitted with the repository named
C37_NewSessionSubmitted ==
    /\ Len(wf.submitted) = 1
    /\ wf.isNewSession
    /\ wf.submitted[1].repositoryUrl = "repoA"

C37_ExistingSessionSubmitted ==
    /\ Len(wf.submitted) = 1
    /\ ~wf.isNewSession
    /\ wf.needsClone
    /\ wf.submitted[1].repositoryUrl = "repoB"

\* the call named repoB, which clonedRepos holds, on a session created with
\* repoA, and the workflow was submitted for repoA
C37_OtherRepositorySubmitted ==
    /\ Len(wf.submitted) = 1
    /\ wf.params.repository = "repoB"
    /\ wf.session[1].clonedRepos = <<"repoA", "repoB">>
    /\ wf.submitted[1].repositoryUrl = "repoA"

\* C38: a run_task call answered with an error has submitted no workflow,
\* and a call that submitted a workflow is answered with the runId.
C38_AllOrNothing ==
    wf.pc = "done" =>
        /\ wf.response.kind = "error" => wf.submitted = <<>>
        /\ wf.submitted # <<>> => wf.response.kind = "success"

\* the same for the calls whose putSession after the submission did not fail
C38_AllOrNothingPutSucceeds ==
    (wf.pc = "done" /\ ~(wf.submitted # <<>> /\ proc[1].result # Ok)) =>
        /\ wf.response.kind = "error" => wf.submitted = <<>>
        /\ wf.submitted # <<>> => wf.response.kind = "success"

\* the workflow submitted and the call answered with the error of the
\* final putSession
C38_SubmittedThenError ==
    /\ wf.pc = "done"
    /\ Len(wf.submitted) = 1
    /\ wf.response.kind = "error"
    /\ wf.response.code = "SessionStorageWriteError"

(***************************************************************************)
(* SpecAgentSession: runs of one session, one after the other.  run_task   *)
(* hands the stored opencodeSessionId to the workflow, executeTask selects *)
(* a session of the coding agent or fails, complete-run stores the id that *)
(* executeTask returned.                                                   *)
(***************************************************************************)
MaxAgentRuns == 3

\* the ids the coding agent gives to the sessions it creates, in order
AgentSessionIds == <<"oc-1", "oc-2", "oc-3", "oc-4">>

\* where executeTask fails: nowhere, in session.list or session.create
\* (before a session is selected), or in session.prompt (after)
ExecuteFaults == {"none", "select", "prompt"}

InitAgentSession ==
    /\ \E s \in StoredSessions, n \in {0, 1} :
          /\ s.opencodeSessionId = "oc-1" => n = 1
          /\ sessRec = MapSet(EmptyMap, "s1", s)
          /\ sessIdx = [exists |-> TRUE, etag |-> 1,
                        sessions |-> MapSet(EmptyMap, "s1", ToIndexEntry(s))]
          /\ wf = [pc |-> "idle", runs |-> 0, agentSessions |-> n,
                   existingOpencodeSessionId |-> Undefined, handed |-> <<>>,
                   result |-> [success |-> TRUE, opencodeSessionId |-> Undefined],
                   selected |-> FALSE]
    /\ etagCounter = 1
    /\ runRec = EmptyMap
    /\ runIdx = AbsentRunIndex
    /\ proc = [p \in {1} |-> Idle]
    /\ calls = 0
    /\ called = {}
    /\ px = NoProxy

\* run_task on the stored session: existingOpencodeSessionId of the params
SubmitRun ==
    /\ wf.pc = "idle"
    /\ wf.runs < MaxAgentRuns
    /\ LET params == WorkflowParams([repository |-> Undefined], sessRec["s1"], FALSE)
       IN wf' = [wf EXCEPT !.pc = "execute",
                           !.existingOpencodeSessionId = params.existingOpencodeSessionId,
                           !.handed = Append(@, params.existingOpencodeSessionId),
                           !.selected = FALSE]
    /\ UNCHANGED <<storeVars, px>>

\* the session executeTask selects: the existing one, the first listed, or
\* a created one
SelectedSessionId(existingOpencodeSessionId, agentSessions) ==
    IF StringGiven(existingOpencodeSessionId) THEN existingOpencodeSessionId
    ELSE IF agentSessions > 0 THEN AgentSessionIds[1]
    ELSE AgentSessionIds[agentSessions + 1]

\* the opencodeSessionId of the result of the catch block
CaughtSessionId(existingOpencodeSessionId) ==
    IF existingOpencodeSessionId # Undefined THEN existingOpencodeSessionId ELSE "unknown"

\* executeTask: the result, and the session created when none was listed
ExecuteTask ==
    /\ wf.pc = "execute"
    /\ \E fault \in ExecuteFaults :
          LET existing == wf.existingOpencodeSessionId
              creates == ~StringGiven(existing) /\ wf.agentSessions = 0
          IN wf' = [wf EXCEPT
                       !.pc = "complete",
                       !.selected = fault # "select",
                       !.agentSessions =
                           IF creates /\ fault # "select" THEN @ + 1 ELSE @,
                       !.result =
                           IF fault = "none"
                           THEN [success |-> TRUE,
                                 opencodeSessionId |->
                                     SelectedSessionId(existing, wf.agentSessions)]
                           ELSE [success |-> FALSE,
                                 opencodeSessionId |-> CaughtSessionId(existing)]]
    /\ UNCHANGED <<storeVars, px>>

\* complete-run: the session update with the opencodeSessionId of the result
CompleteRunUpdatesSession ==
    /\ \/ /\ wf.pc = "complete"
          /\ PutSessionRecord(1, UpdatedSession(sessRec["s1"],
                 [opencodeSessionId |-> wf.result.opencodeSessionId,
                  workspacePath |-> Undefined], MaxTime))
          /\ wf' = [wf EXCEPT !.pc = "storing"]
       \/ /\ wf.pc = "storing"
          /\ proc[1].pc = "idle"
          /\ wf' = [wf EXCEPT !.pc = "idle", !.runs = @ + 1]
          /\ UNCHANGED storeVars
    /\ UNCHANGED px

NextAgentSession ==
    \/ SubmitRun
    \/ ExecuteTask
    \/ CompleteRunUpdatesSession
    \/ SessionStoreStep(1)

SpecAgentSession == InitAgentSession /\ [][NextAgentSession]_vars

\* the ids of the sessions the coding agent has
AgentKnows(id) == \E i \in 1..wf.agentSessions : AgentSessionIds[i] = id

\* C39: the stored opencodeSessionId is absent or the id of a session of
\* the coding agent, and so is every existingOpencodeSessionId handed to a
\* workflow.
C39_AgentSessionIdOnly ==
    /\ sessRec["s1"].opencodeSessionId = Undefined \/ AgentKnows(sessRec["s1"].opencodeSessionId)
    /\ \A i \in 1..Len(wf.handed) : wf.handed[i] = Undefined \/ AgentKnows(wf.handed[i])

\* the stored and the handed id is absent, the id of a session of the
\* coding agent, or the string "unknown" of the catch block
C39_AgentSessionIdOrUnknown ==
    /\ sessRec["s1"].opencodeSessionId \in {Undefined, "unknown"}
          \/ AgentKnows(sessRec["s1"].opencodeSessionId)
    /\ \A i \in 1..Len(wf.handed) :
          wf.handed[i] \in {Undefined, "unknown"} \/ AgentKnows(wf.handed[i])

\* a run has stored the id of a session the agent created
C39_CreatedIdStored ==
    /\ wf.runs = 1
    /\ wf.pc = "idle"
    /\ wf.handed = <<Undefined>>
    /\ sessRec["s1"].opencodeSessionId = "oc-1"

(***************************************************************************)
(* SpecPrepare: ensureSandboxReady on the sandbox of one session, command  *)
(* by command.  Invoker 1 is the prepare-sandbox step of a workflow run,   *)
(* invoker 2 a web-UI request (proxyToSandbox); both reach the same        *)
(* sandbox and may overlap.  Each invocation has its own proxy token; a    *)
(* step that was interrupted is invoked again with the token of its run.   *)
(***************************************************************************)
MaxInvocations == 3
MaxInterrupts == 1

\* a new sandbox: /workspace/.env (the ANTHROPIC_BASE_URL line, the
\* ANTHROPIC_API_KEY lines in the order they were appended), the global git
\* configuration, the repository's .git directory
NewSandbox ==
    [envUrl |-> FALSE, envKey |-> <<>>, insteadOf |-> FALSE, extraheader |-> 0,
     userConfig |-> FALSE, git |-> FALSE]

\* const result: SandboxReadyResult
InitialReadyResult ==
    [workspacePath |-> "/workspace", restoredBackup |-> FALSE, clonedRepo |-> FALSE,
     configuredProxy |-> FALSE]

NoInvocation ==
    [pc |-> "idle", token |-> 0, res |-> InitialReadyResult, sawGit |-> FALSE,
     acts |-> {}, retried |-> FALSE]

InitPrepare ==
    /\ sessRec = EmptyMap
    /\ sessIdx = AbsentIndex
    /\ runRec = EmptyMap
    /\ runIdx = AbsentRunIndex
    /\ etagCounter = 0
    /\ proc = [p \in {1} |-> Idle]
    /\ calls = 0
    /\ called = {}
    /\ \E repository \in BOOLEAN, branch \in BOOLEAN :
          wf = [sb |-> NewSandbox, repository |-> repository,
                branch |-> repository /\ branch,
                inv |-> [i \in {1, 2} |-> NoInvocation],
                started |-> 0, interrupts |-> 0]
    /\ px = NoProxy

\* a run's prepare-sandbox step, or a web-UI request, calls
\* ensureSandboxReady with a token minted for it
StartPrepare(i) ==
    /\ wf.inv[i].pc \in {"idle", "returned", "threw"}
    /\ wf.started < MaxInvocations
    /\ wf' = [wf EXCEPT !.started = @ + 1,
                        !.inv[i] = [NoInvocation EXCEPT !.pc = "proxy-check",
                                                        !.token = wf.started + 1]]
    /\ UNCHANGED <<storeVars, px>>

\* a command of the invocation does not return (sandbox.exec rejects, or
\* the step is cut off): ensureSandboxReady ends there
InterruptPrepare(i) ==
    /\ wf.inv[i].pc \notin {"idle", "returned", "threw"}
    /\ wf.interrupts < MaxInterrupts
    /\ wf' = [wf EXCEPT !.interrupts = @ + 1, !.inv[i].pc = "threw"]
    /\ UNCHANGED <<storeVars, px>>

\* the engine invokes the interrupted step again, with the params of the run
RetryPrepare ==
    /\ wf.inv[1].pc = "threw"
    /\ wf' = [wf EXCEPT !.inv[1] = [NoInvocation EXCEPT !.pc = "proxy-check",
                                                        !.token = wf.inv[1].token,
                                                        !.retried = TRUE]]
    /\ UNCHANGED <<storeVars, px>>

\* ensureSandboxReady returns with the repository's directory
ReturnedWithRepository(inv, cloned) ==
    [inv EXCEPT !.pc = "returned", !.res.clonedRepo = cloned,
                !.res.workspacePath = "/workspace/repo"]

\* ensureSandboxReady with configureAnthropic, configureGithub,
\* setupGitConfig and cloneRepository, one sandbox command per step
PrepareStep(i) ==
    /\ LET inv == wf.inv[i]
           sb == wf.sb
       IN CASE inv.pc = "proxy-check" ->
                 wf' = [wf EXCEPT !.inv[i].pc = IF ~sb.envUrl THEN "anthropic-url"
                                                ELSE "storage-check"]
            [] inv.pc = "anthropic-url" ->
                 wf' = [wf EXCEPT !.sb.envUrl = TRUE, !.inv[i].pc = "anthropic-key"]
            [] inv.pc = "anthropic-key" ->
                 wf' = [wf EXCEPT !.sb.envKey = Append(@, inv.token),
                                  !.inv[i].pc = "insteadOf"]
            [] inv.pc = "insteadOf" ->
                 wf' = [wf EXCEPT !.sb.insteadOf = TRUE, !.inv[i].pc = "extraheader"]
            [] inv.pc = "extraheader" ->
                 wf' = [wf EXCEPT !.sb.extraheader = inv.token,
                                  !.inv[i].pc = "user-config"]
            [] inv.pc = "user-config" ->
                 wf' = [wf EXCEPT !.sb.userConfig = TRUE,
                                  !.inv[i].res.configuredProxy = TRUE,
                                  !.inv[i].acts = @ \cup {"configure"},
                                  !.inv[i].pc = "storage-check"]
            [] inv.pc = "storage-check" ->
                 wf' = [wf EXCEPT !.inv[i].pc = IF wf.repository THEN "repo-check"
                                                ELSE "returned"]
            [] inv.pc = "repo-check" ->
                 wf' = IF ~sb.git
                       THEN [wf EXCEPT !.inv[i].pc = "clone-check"]
                       ELSE [wf EXCEPT !.inv[i] =
                                [ReturnedWithRepository(inv, FALSE) EXCEPT !.sawGit = TRUE]]
            [] inv.pc = "clone-check" ->
                 wf' = [wf EXCEPT !.inv[i].pc = IF sb.git THEN "git-fetch" ELSE "git-clone"]
            [] inv.pc = "git-fetch" ->
                 wf' = IF wf.branch
                       THEN [wf EXCEPT !.inv[i].acts = @ \cup {"fetch"},
                                       !.inv[i].pc = "git-checkout"]
                       ELSE [wf EXCEPT !.inv[i] =
                                [ReturnedWithRepository(inv, TRUE) EXCEPT
                                    !.acts = @ \cup {"fetch"}]]
            [] inv.pc = "git-checkout" ->
                 wf' = [wf EXCEPT !.inv[i] =
                           [ReturnedWithRepository(inv, TRUE) EXCEPT
                               !.acts = @ \cup {"checkout"}]]
            [] inv.pc = "git-clone" ->
                 wf' = [wf EXCEPT !.sb.git = TRUE,
                                  !.inv[i] = [ReturnedWithRepository(inv, TRUE) EXCEPT
                                                 !.acts = @ \cup {"clone"}]]
            [] OTHER -> FALSE
    /\ UNCHANGED <<storeVars, px>>

NextPrepare ==
    \/ \E i \in {1, 2} : StartPrepare(i)
    \/ \E i \in {1, 2} : PrepareStep(i)
    \/ \E i \in {1, 2} : InterruptPrepare(i)
    \/ RetryPrepare

SpecPrepare == InitPrepare /\ [][NextPrepare]_vars

\* the sandbox has the Anthropic entries and the git proxy configuration
ProxyConfigured ==
    /\ wf.sb.envUrl
    /\ wf.sb.envKey # <<>>
    /\ wf.sb.insteadOf
    /\ wf.sb.extraheader # 0

StartsCloning(i) == wf.inv[i].pc \in {"clone-check", "git-clone"}

\* C33: whenever an invocation of ensureSandboxReady starts cloning, the
\* sandbox has both Anthropic entries of /workspace/.env and the insteadOf
\* rewrite and the Authorization extraheader of git, interrupted and
\* re-invoked steps included.
C33_ConfiguredBeforeClone ==
    \A i \in {1, 2} : StartsCloning(i) => ProxyConfigured

\* the same on a sandbox where no invocation was interrupted and no other
\* invocation has begun
C33_ConfiguredBeforeCloneAlone ==
    \A i \in {1, 2} :
        (/\ StartsCloning(i)
         /\ wf.interrupts = 0
         /\ wf.inv[3 - i].pc = "idle") => ProxyConfigured

\* the re-invoked step starts cloning with ANTHROPIC_BASE_URL in .env and
\* nothing else configured
C33_RetriedWithoutKey ==
    /\ StartsCloning(1)
    /\ wf.inv[1].retried
    /\ wf.inv[2].pc = "idle"
    /\ wf.sb.envUrl
    /\ wf.sb.envKey = <<>>
    /\ wf.sb.extraheader = 0

\* C34: an invocation for a repository whose .git directory exists returns
\* after fetching from origin and, with a branch given, checking it out,
\* with clonedRepo false and workspacePath /workspace/{repo}; without a
\* repository workspacePath is /workspace.
C34_FetchWhenCloned ==
    \A i \in {1, 2} :
        wf.inv[i].pc = "returned" =>
            /\ wf.inv[i].sawGit =>
                  /\ "fetch" \in wf.inv[i].acts
                  /\ wf.branch => "checkout" \in wf.inv[i].acts
                  /\ ~wf.inv[i].res.clonedRepo
                  /\ wf.inv[i].res.workspacePath = "/workspace/repo"
            /\ ~wf.repository => wf.inv[i].res.workspacePath = "/workspace"

\* the same without the fetch and the checkout
C34_ResultWhenCloned ==
    \A i \in {1, 2} :
        wf.inv[i].pc = "returned" =>
            /\ wf.inv[i].sawGit =>
                  /\ wf.inv[i].acts \subseteq {"configure"}
                  /\ ~wf.inv[i].res.clonedRepo
                  /\ wf.inv[i].res.workspacePath = "/workspace/repo"
            /\ ~wf.repository => wf.inv[i].res.workspacePath = "/workspace"

\* an invocation found the .git directory of an earlier one and returned
C34_ReturnedForClonedRepository ==
    /\ wf.inv[1].pc = "returned"
    /\ wf.inv[1].sawGit
    /\ wf.branch
    /\ wf.inv[2].pc = "returned"
    /\ "clone" \in wf.inv[2].acts

\* the last ANTHROPIC_API_KEY line of .env and the extraheader of git carry
\* the token
SandboxTokenIs(token) ==
    /\ wf.sb.envKey # <<>>
    /\ wf.sb.envKey[Len(wf.sb.envKey)] = token
    /\ wf.sb.extraheader = token

\* C36: when the prepare-sandbox step of a run returns, the token in
\* /workspace/.env and in the git extraheader is the proxyToken of that run.
C36_TokenOfTheRun ==
    wf.inv[1].pc = "returned" => SandboxTokenIs(wf.inv[1].token)

\* the same for the run that configured the sandbox itself, with no other
\* invocation begun and none interrupted
C36_TokenOfTheConfigurer ==
    (/\ wf.inv[1].pc = "returned"
     /\ wf.inv[1].res.configuredProxy
     /\ wf.interrupts = 0
     /\ wf.inv[2].pc = "idle") => SandboxTokenIs(wf.inv[1].token)

\* a web-UI request configured the sandbox, the step of a later run returned
\* and the sandbox holds the token of the request
C36_WebTokenKept ==
    /\ wf.inv[2].pc = "returned"
    /\ wf.inv[2].res.configuredProxy
    /\ wf.inv[1].pc = "returned"
    /\ wf.inv[1].token > wf.inv[2].token
    /\ wf.interrupts = 0
    /\ SandboxTokenIs(wf.inv[2].token)

(***************************************************************************)
(* SpecPaging: a client pages through opencode_list_runs with fixed        *)
(* filters and limit, passing as before the startedAt of the last run of   *)
(* the page before, until hasMore is false.                                *)
(***************************************************************************)
InitPaging ==
    /\ sessRec = EmptyMap
    /\ sessIdx = AbsentIndex
    /\ \E n \in 0..MaxListed : \E f \in [1..n -> ListedAttributes] :
          /\ runRec = [id \in {RunIdNames[i] : i \in 1..n} |->
                          ListedRun(CHOOSE i \in 1..n : RunIdNames[i] = id,
                                    f[CHOOSE i \in 1..n : RunIdNames[i] = id])]
          /\ runIdx = [exists |-> TRUE, etag |-> 1,
                       runs |-> [i \in 1..n |-> RunToIndexEntry(ListedRun(i, f[i]))]]
    /\ etagCounter = 1
    /\ proc = [p \in {1} |-> Idle]
    /\ calls = 0
    /\ called = {}
    /\ \E sessionId \in SessionIds \cup {Undefined},
          status \in {"started", "completed", Undefined}, limit \in 1..MaxLimit :
          wf = [params |-> [sessionId |-> sessionId, status |-> status,
                            before |-> NoNumber, limit |-> limit],
                hasMore |-> TRUE, pages |-> 0, seen |-> <<>>]
    /\ px = NoProxy

\* the response of the handler of opencode_list_runs
ListRunsResponse(index, params) ==
    LET limit == ToolLimit(params)
        result == ListRuns(index, [params EXCEPT !.limit = limit + 1])
        hasMore == Len(result.runs) > limit
    IN [runs |-> IF hasMore THEN SubSeq(result.runs, 1, limit) ELSE result.runs,
        hasMore |-> hasMore]

\* the client asks for the next page
ListRunsPage ==
    /\ wf.hasMore
    /\ LET response == ListRunsResponse(ReadRunIndexResult(runIdx).index, wf.params)
           last == response.runs[Len(response.runs)]
       IN /\ ListRunsCall(1, [wf.params EXCEPT !.limit = ToolLimit(wf.params) + 1])
          /\ wf' = [wf EXCEPT
                       !.hasMore = response.hasMore,
                       !.pages = @ + 1,
                       !.seen = @ \o [i \in 1..Len(response.runs) |-> response.runs[i].runId],
                       !.params.before = IF response.runs # <<>> THEN last.startedAt ELSE @]
    /\ UNCHANGED px

NextPaging == ListRunsPage

SpecPaging == InitPaging /\ [][NextPaging]_vars

\* the runs of the index that match the filters of the client
MatchingRunIds ==
    {runIdx.runs[i].runId : i \in {j \in DOMAIN runIdx.runs :
        Matches(runIdx.runs[j], [wf.params EXCEPT !.before = NoNumber])}}

SeenEachOnce ==
    /\ {wf.seen[i] : i \in 1..Len(wf.seen)} = MatchingRunIds
    /\ NoRepeat(wf.seen)

\* C40: when the paging ends, every run that matches the filters has been
\* returned exactly once, whatever the startedAt values of the runs.
C40_PagingReturnsEachOnce ==
    ~wf.hasMore => SeenEachOnce

\* the same when no two runs of the index share a startedAt
C40_PagingDistinctStartedAt ==
    (/\ ~wf.hasMore
     /\ \A i, j \in DOMAIN runIdx.runs :
           runIdx.runs[i].startedAt = runIdx.runs[j].startedAt => i = j) => SeenEachOnce

\* two pages of one run each, the runs started at different times
C40_TwoPages ==
    /\ ~wf.hasMore
    /\ wf.pages = 2
    /\ Len(wf.seen) = 2
    /\ wf.params.limit = 1

\* two runs started at the same time, a page size of one: the paging ended
\* after the first
C40_TieDropped ==
    /\ ~wf.hasMore
    /\ Len(runIdx.runs) = 2
    /\ MatchingRunIds = {"r1", "r2"}
    /\ wf.params.limit = 1
    /\ Len(wf.seen) = 1

====
